---- MODULE Spec2Model ----
(***************************************************************************)
(* Model of the fleet-modernity pipeline of the airlines repository:       *)
(*   air1_generate_features.py  raw rows -> per-airline aggregate, v0 index *)
(*   build_features.py          aggregate + raw rows -> features table      *)
(*   air9_compute_scores.py     features table -> score table, QA notes     *)
(*   air14_region_summary.py    score table -> country / region resolution  *)
(*   air13_build_country_mapping.py  dataset countries -> mapping file      *)
(*   api.py                     the read API over the database              *)
(* Each script is a batch stage; `stage` is the position in the run.        *)
(*                                                                         *)
(* Numbers are exact rationals [n, d] (pandas computes in float64; the      *)
(* rounding of float64 is not modelled). A cell of a table is a rational,   *)
(* NA (an empty cell, NaN, None) or NONNUM (a text that is not a number).   *)
(* A text is a sequence of one-character strings; an accented letter is one *)
(* character, written with an ASCII name such as "e_acute".                 *)
(***************************************************************************)
EXTENDS Integers, Sequences, FiniteSets, TLC

VARIABLES stage, raw, agg, air1, feat, frame, scores, mapping, merged, missing, summary, env, api

vars == <<stage, raw, agg, air1, feat, frame, scores, mapping, merged, missing, summary, env, api>>

(***************************************************************************)
(* Rationals                                                               *)
(***************************************************************************)
Abs(x) == IF x < 0 THEN -x ELSE x

RECURSIVE Gcd(_, _)
Gcd(a, b) == IF b = 0 THEN a ELSE Gcd(b, a % b)

\* the rational n/d in lowest terms with a positive denominator (d # 0)
Q(n, d) ==
    LET g == Gcd(Abs(n), Abs(d))
        s == IF d < 0 THEN -1 ELSE 1
    IN  [n |-> (s * n) \div g, d |-> (s * d) \div g]

QInt(k) == [n |-> k, d |-> 1]
QAdd(x, y) == Q(x.n * y.d + y.n * x.d, x.d * y.d)
QMul(x, y) == Q(x.n * y.n, x.d * y.d)
QDiv(x, y) == Q(x.n * y.d, x.d * y.n)
QLt(x, y) == x.n * y.d < y.n * x.d
QLe(x, y) == x.n * y.d <= y.n * x.d
QMin(x, y) == IF QLe(x, y) THEN x ELSE y
QZero == QInt(0)
QOne == QInt(1)
In01(x) == QLe(QZero, x) /\ QLe(x, QOne)

(***************************************************************************)
(* Cells                                                                   *)
(***************************************************************************)
NA == [k |-> "na", n |-> 0, d |-> 1]
\* a text that pd.to_numeric(errors="coerce") cannot read
NONNUM == [k |-> "text", n |-> 0, d |-> 1]
Num(q) == [k |-> "num", n |-> q.n, d |-> q.d]
IsNum(c) == c.k = "num"
\* pandas isna on a numeric column
IsNa(c) == c.k = "na"

(***************************************************************************)
(* Texts: sequences of characters                                          *)
(***************************************************************************)
LOWER == <<"a", "b", "c", "d", "e", "f", "g", "h", "i", "j", "k", "l", "m", "n", "o", "p", "q", "r", "s", "t", "u", "v", "w", "x", "y", "z", "e_acute", "e_grave">>
UPPER == <<"A", "B", "C", "D", "E", "F", "G", "H", "I", "J", "K", "L", "M", "N", "O", "P", "Q", "R", "S", "T", "U", "V", "W", "X", "Y", "Z", "E_acute", "E_grave">>
ASCII_LETTERS == {LOWER[i] : i \in 1..26} \cup {UPPER[i] : i \in 1..26}
DIGIT == {"0", "1", "2", "3", "4", "5", "6", "7", "8", "9"}
\* \w of a Python str pattern: letters (accented ones too), digits, underscore
WORDCH == {LOWER[i] : i \in DOMAIN LOWER} \cup {UPPER[i] : i \in DOMAIN UPPER} \cup DIGIT \cup {"_"}
SPACECH == {" ", "\t", "\n"}
\* the value of an empty text cell (None / NaN in a text column)
NoText == <<"<NA>">>

\* str.upper / str.lower, character by character
UpperCh(c) == IF \E i \in DOMAIN LOWER : LOWER[i] = c
              THEN UPPER[CHOOSE i \in DOMAIN LOWER : LOWER[i] = c] ELSE c
LowerCh(c) == IF \E i \in DOMAIN UPPER : UPPER[i] = c
              THEN LOWER[CHOOSE i \in DOMAIN UPPER : UPPER[i] = c] ELSE c
RECURSIVE Upper(_)
Upper(s) == IF s = <<>> THEN <<>> ELSE <<UpperCh(Head(s))>> \o Upper(Tail(s))
RECURSIVE Lower(_)
Lower(s) == IF s = <<>> THEN <<>> ELSE <<LowerCh(Head(s))>> \o Lower(Tail(s))

\* str.strip(chars): drop the leading and trailing characters that are in cs
RECURSIVE LStrip(_, _)
LStrip(s, cs) == IF s # <<>> /\ Head(s) \in cs THEN LStrip(Tail(s), cs) ELSE s
RECURSIVE RStrip(_, _)
RStrip(s, cs) == IF s # <<>> /\ s[Len(s)] \in cs THEN RStrip(SubSeq(s, 1, Len(s) - 1), cs) ELSE s
StripChars(s, cs) == RStrip(LStrip(s, cs), cs)
\* str.strip(): whitespace
Strip(s) == StripChars(s, SPACECH)

\* `sub in s` of Python
Contains(s, sub) ==
    \E i \in 1..(Len(s) - Len(sub) + 1) : SubSeq(s, i, i + Len(sub) - 1) = sub

\* s.split(sep) for a one-character separator: the segments, in order
RECURSIVE SplitOn(_, _, _)
SplitOn(s, sep, cur) ==
    IF s = <<>> THEN <<cur>>
    ELSE IF Head(s) = sep THEN <<cur>> \o SplitOn(Tail(s), sep, <<>>)
    ELSE SplitOn(Tail(s), sep, Append(cur, Head(s)))

\* unicodedata.normalize("NFKD", .): an accented letter becomes its base letter
\* followed by a combining mark
NFKDCh(c) ==
    CASE c = "e_acute" -> <<"e", "comb_acute">>
      [] c = "e_grave" -> <<"e", "comb_grave">>
      [] c = "E_acute" -> <<"E", "comb_acute">>
      [] c = "E_grave" -> <<"E", "comb_grave">>
      [] OTHER -> <<c>>
RECURSIVE NFKD(_)
NFKD(s) == IF s = <<>> THEN <<>> ELSE NFKDCh(Head(s)) \o NFKD(Tail(s))
COMBINING == {"comb_acute", "comb_grave"}
\* the characters str.encode("ascii", errors="ignore") keeps
IsAscii(c) == c \notin COMBINING /\ c \notin {"e_acute", "e_grave", "E_acute", "E_grave"}

(***************************************************************************)
(* Regular expressions of Python's re, as far as the patterns of the       *)
(* source use them. Ends(re, s, i) is the set of positions j such that re   *)
(* matches s[i..j-1]; re.search succeeds iff some start has an end.         *)
(***************************************************************************)
Lits(cs) == [t |-> "lits", a |-> cs, lo |-> 0, hi |-> 0]
In(S) == [t |-> "in", a |-> S, lo |-> 0, hi |-> 0]
AnyCh == [t |-> "any", a |-> <<>>, lo |-> 0, hi |-> 0]
WB == [t |-> "wb", a |-> <<>>, lo |-> 0, hi |-> 0]
BOS == [t |-> "bos", a |-> <<>>, lo |-> 0, hi |-> 0]
Cat(xs) == [t |-> "cat", a |-> xs, lo |-> 0, hi |-> 0]
Alt(xs) == [t |-> "alt", a |-> xs, lo |-> 0, hi |-> 0]
\* x{lo,hi}; hi = -1 is "no upper limit"
Rep(l, h, x) == [t |-> "rep", a |-> x, lo |-> l, hi |-> h]

\* \b at position i: exactly one of s[i-1], s[i] is a word character
AtBoundary(s, i) ==
    LET before == i > 1 /\ s[i - 1] \in WORDCH
        after == i <= Len(s) /\ s[i] \in WORDCH
    IN  before # after

RECURSIVE Ends(_, _, _)
RECURSIVE CatEnds(_, _, _, _)
RECURSIVE RepEnds(_, _, _, _)
Ends(re, s, i) ==
    CASE re.t = "lits" ->
           LET n == Len(re.a)
           IN  IF i + n - 1 <= Len(s) /\ \A k \in 1..n : s[i + k - 1] = re.a[k]
               THEN {i + n} ELSE {}
      [] re.t = "in" -> IF i <= Len(s) /\ s[i] \in re.a THEN {i + 1} ELSE {}
      [] re.t = "any" -> IF i <= Len(s) /\ s[i] # "\n" THEN {i + 1} ELSE {}
      [] re.t = "wb" -> IF AtBoundary(s, i) THEN {i} ELSE {}
      [] re.t = "bos" -> IF i = 1 THEN {i} ELSE {}
      [] re.t = "cat" -> CatEnds(re.a, 1, s, {i})
      [] re.t = "alt" -> UNION {Ends(re.a[k], s, i) : k \in DOMAIN re.a}
      [] re.t = "rep" -> RepEnds(re, s, {i}, 0)
CatEnds(xs, k, s, cur) ==
    IF k > Len(xs) \/ cur = {} THEN cur
    ELSE CatEnds(xs, k + 1, s, UNION {Ends(xs[k], s, j) : j \in cur})
\* cur: the positions reached after n repetitions
RepEnds(re, s, cur, n) ==
    LET here == IF n >= re.lo THEN cur ELSE {}
        stop == cur = {} \/ (re.hi >= 0 /\ n >= re.hi) \/ n > Len(s)
    IN  IF stop THEN here
        ELSE here \cup RepEnds(re, s, UNION {Ends(re.a, s, j) : j \in cur}, n + 1)

\* bool(re.search(s))
Search(re, s) == \E i \in 1..(Len(s) + 1) : Ends(re, s, i) # {}

(***************************************************************************)
(* Order of texts (Python compares str by code point) and stable sorting   *)
(***************************************************************************)
\* the characters of the model, by increasing code point
CHARS == <<"\t", "\n", " ", "-", ".", "0", "1", "2", "3", "4", "5", "6", "7", "8", "9", ";", "A", "B", "C", "D", "E", "F", "G", "H", "I", "J", "K", "L", "M", "N", "O", "P", "Q", "R", "S", "T", "U", "V", "W", "X", "Y", "Z", "_", "a", "b", "c", "d", "e", "f", "g", "h", "i", "j", "k", "l", "m", "n", "o", "p", "q", "r", "s", "t", "u", "v", "w", "x", "y", "z", "E_grave", "E_acute", "e_grave", "e_acute", "comb_grave", "comb_acute">>
CodeOf(c) == CHOOSE i \in DOMAIN CHARS : CHARS[i] = c
RECURSIVE TextLt(_, _)
TextLt(a, b) ==
    IF b = <<>> THEN FALSE
    ELSE IF a = <<>> THEN TRUE
    ELSE IF Head(a) = Head(b) THEN TextLt(Tail(a), Tail(b))
    ELSE CodeOf(Head(a)) < CodeOf(Head(b))

\* the distinct values of a sequence, in order of first occurrence
RECURSIVE Distinct(_, _)
Distinct(s, seen) ==
    IF s = <<>> THEN <<>>
    ELSE IF Head(s) \in seen THEN Distinct(Tail(s), seen)
    ELSE <<Head(s)>> \o Distinct(Tail(s), seen \cup {Head(s)})
Range(s) == {s[i] : i \in DOMAIN s}
\* the texts of a set in increasing order (the group keys of a pandas groupby)
RECURSIVE SortedTexts(_)
SortedTexts(S) ==
    IF S = {} THEN <<>>
    ELSE LET m == CHOOSE x \in S : \A y \in S \ {x} : TextLt(x, y)
         IN  <<m>> \o SortedTexts(S \ {m})
\* the subsequence of s at the indexes in K, in order
RECURSIVE KeepFrom(_, _, _)
KeepFrom(s, K, i) ==
    IF i > Len(s) THEN <<>>
    ELSE (IF i \in K THEN <<s[i]>> ELSE <<>>) \o KeepFrom(s, K, i + 1)
KeepIdx(s, K) == KeepFrom(s, K, 1)
RECURSIVE QSum(_)
QSum(s) == IF s = <<>> THEN QZero ELSE QAdd(Head(s), QSum(Tail(s)))

(***************************************************************************)
(* The patterns of build_features.py (PAT) and of air1_generate_features.py  *)
(* (NEWGEN_PATTERNS), each written as the regular expression it is.          *)
(***************************************************************************)
\* \b(a220-?1(00)?|a220-?3(00)?|cs100|cs300|bd-500-1a1[01])\b
PAT_a220 ==
    Cat(<<WB, Alt(<<Cat(<<Lits(<<"a", "2", "2", "0">>), Rep(0, 1, Lits(<<"-">>)), Lits(<<"1">>), Rep(0, 1, Lits(<<"0", "0">>))>>), Cat(<<Lits(<<"a", "2", "2", "0">>), Rep(0, 1, Lits(<<"-">>)), Lits(<<"3">>), Rep(0, 1, Lits(<<"0", "0">>))>>), Lits(<<"c", "s", "1", "0", "0">>), Lits(<<"c", "s", "3", "0", "0">>), Cat(<<Lits(<<"b", "d", "-", "5", "0", "0", "-", "1", "a", "1">>), In({"0", "1"})>>)>>), WB>>)
\* \b787\b
PAT_b787 ==
    Cat(<<WB, Lits(<<"7", "8", "7">>), WB>>)
\* \ba350\b
PAT_a350 ==
    Cat(<<WB, Lits(<<"a", "3", "5", "0">>), WB>>)
\* \b(a330-800|a330-900|a330neo|a330-?9?00?neo)\b
PAT_a330neo ==
    Cat(<<WB, Cat(<<Lits(<<"a", "3", "3", "0">>), Alt(<<Lits(<<"-", "8", "0", "0">>), Lits(<<"-", "9", "0", "0">>), Lits(<<"n", "e", "o">>), Cat(<<Rep(0, 1, Lits(<<"-">>)), Rep(0, 1, Lits(<<"9">>)), Lits(<<"0">>), Rep(0, 1, Lits(<<"0">>)), Lits(<<"n", "e", "o">>)>>)>>)>>), WB>>)
\* \b(a31[9]|a32[01])[- ]?\d{2,3}n\b|\b(a31[9]|a32[01])neo\b
PAT_neo ==
    Cat(<<WB, Alt(<<Cat(<<Cat(<<Lits(<<"a", "3">>), Alt(<<Lits(<<"1", "9">>), Cat(<<Lits(<<"2">>), In({"0", "1"})>>)>>)>>), Rep(0, 1, In({"-", " "})), Rep(2, 3, In(DIGIT)), Lits(<<"n">>), WB>>), Cat(<<Cat(<<Lits(<<"a", "3">>), Alt(<<Lits(<<"1", "9">>), Cat(<<Lits(<<"2">>), In({"0", "1"})>>)>>)>>), Lits(<<"n", "e", "o">>), WB>>)>>)>>)
\* \b(737[- ]?max|7m7|7m8|7m9|7mj|max ?(7|8|9|10))\b
PAT_max ==
    Cat(<<WB, Alt(<<Cat(<<Lits(<<"7", "3", "7">>), Rep(0, 1, In({"-", " "})), Lits(<<"m", "a", "x">>)>>), Lits(<<"7", "m", "7">>), Lits(<<"7", "m", "8">>), Lits(<<"7", "m", "9">>), Lits(<<"7", "m", "j">>), Cat(<<Lits(<<"m", "a", "x">>), Rep(0, 1, Lits(<<" ">>)), Alt(<<Lits(<<"7">>), Lits(<<"8">>), Lits(<<"9">>), Lits(<<"1", "0">>)>>)>>)>>), WB>>)

NEWGEN_PATTERNS == <<
    \* \bneo\b
    Cat(<<WB, Lits(<<"n", "e", "o">>), WB>>),
    \* \ba32\dneo\b
    Cat(<<WB, Lits(<<"a", "3", "2">>), In(DIGIT), Lits(<<"n", "e", "o">>), WB>>),
    \* \ba32\d-2\d{2}n\w?\b
    Cat(<<WB, Lits(<<"a", "3", "2">>), In(DIGIT), Lits(<<"-", "2">>), Rep(2, 2, In(DIGIT)), Lits(<<"n">>), Rep(0, 1, In(WORDCH)), WB>>),
    \* \ba31\d-1\d{2}n\w?\b
    Cat(<<WB, Lits(<<"a", "3", "1">>), In(DIGIT), Lits(<<"-", "1">>), Rep(2, 2, In(DIGIT)), Lits(<<"n">>), Rep(0, 1, In(WORDCH)), WB>>),
    \* \ba321\s?xlr\b
    Cat(<<WB, Lits(<<"a", "3", "2", "1">>), Rep(0, 1, In(SPACECH)), Lits(<<"x", "l", "r">>), WB>>),
    \* \ba321\s?lr\b
    Cat(<<WB, Lits(<<"a", "3", "2", "1">>), Rep(0, 1, In(SPACECH)), Lits(<<"l", "r">>), WB>>),
    \* \b787\b
    Cat(<<WB, Lits(<<"7", "8", "7">>), WB>>),
    \* \ba350\b
    Cat(<<WB, Lits(<<"a", "3", "5", "0">>), WB>>),
    \* \ba330neo\b
    Cat(<<WB, Lits(<<"a", "3", "3", "0", "n", "e", "o">>), WB>>),
    \* \ba330-9\d{2}\b
    Cat(<<WB, Lits(<<"a", "3", "3", "0", "-", "9">>), Rep(2, 2, In(DIGIT)), WB>>),
    \* \ba330-8\d{2}\b
    Cat(<<WB, Lits(<<"a", "3", "3", "0", "-", "8">>), Rep(2, 2, In(DIGIT)), WB>>),
    \* \bmax\b
    Cat(<<WB, Lits(<<"m", "a", "x">>), WB>>),
    \* (^|\s)b?737-7\b
    Cat(<<Alt(<<BOS, In(SPACECH)>>), Rep(0, 1, Lits(<<"b">>)), Lits(<<"7", "3", "7", "-", "7">>), WB>>),
    \* (^|\s)b?737-8\b
    Cat(<<Alt(<<BOS, In(SPACECH)>>), Rep(0, 1, Lits(<<"b">>)), Lits(<<"7", "3", "7", "-", "8">>), WB>>),
    \* (^|\s)b?737-9\b
    Cat(<<Alt(<<BOS, In(SPACECH)>>), Rep(0, 1, Lits(<<"b">>)), Lits(<<"7", "3", "7", "-", "9">>), WB>>),
    \* (^|\s)b?737-10\b
    Cat(<<Alt(<<BOS, In(SPACECH)>>), Rep(0, 1, Lits(<<"b">>)), Lits(<<"7", "3", "7", "-", "1", "0">>), WB>>),
    \* (^|\s)b?737-8-200\b
    Cat(<<Alt(<<BOS, In(SPACECH)>>), Rep(0, 1, Lits(<<"b">>)), Lits(<<"7", "3", "7", "-", "8", "-", "2", "0", "0">>), WB>>),
    \* \ba220\b
    Cat(<<WB, Lits(<<"a", "2", "2", "0">>), WB>>),
    \* \bcs(100|300)\b
    Cat(<<WB, Lits(<<"c", "s">>), Alt(<<Lits(<<"1", "0", "0">>), Lits(<<"3", "0", "0">>)>>), WB>>),
    \* cseries
    Lits(<<"c", "s", "e", "r", "i", "e", "s">>),
    \* embraer.*\be2\b
    Cat(<<Lits(<<"e", "m", "b", "r", "a", "e", "r">>), Rep(0, -1, AnyCh), WB, Lits(<<"e", "2">>), WB>>),
    \* \be19[05]-e2\b
    Cat(<<WB, Lits(<<"e", "1", "9">>), In({"0", "5"}), Lits(<<"-", "e", "2">>), WB>>),
    \* \be19[05]-2\b
    Cat(<<WB, Lits(<<"e", "1", "9">>), In({"0", "5"}), Lits(<<"-", "2">>), WB>>),
    \* \be2\b
    Cat(<<WB, Lits(<<"e", "2">>), WB>>),
    \* \b777x\b
    Cat(<<WB, Lits(<<"7", "7", "7", "x">>), WB>>)
>>

(***************************************************************************)
(* The raw dataset                                                         *)
(***************************************************************************)
\* the largest number of rows of source/dataset.xlsx
MaxRaw == 3

\* airline_name values of the raw rows
RawNames == {<<"A", "f">>, <<"K", "L", " ">>}
\* detailed_aircraft_type values of the raw rows (NoText: an empty cell)
RawModels == {<<"A", "3", "2", "0", "n", "e", "o">>, <<"A", "3", "2", "1">>, <<"A", "2", "2", "0", "-", "3", "0", "0">>, <<"7", "8", "7", "-", "9">>, NoText}
\* airlines of a hand-edited aggregate or features file
ExtraNames == {<<"A", "F">>, <<"L", "H">>}
RawRows == [airline_name : RawNames, model : RawModels, country : {NoText}]
RawInputs == UNION {[1..n -> RawRows] : n \in 1..MaxRaw}

\* a cell of the sheet that holds the integer 787, not a text
INT_787 == <<"<int>", "7", "8", "7">>
\* isinstance(x, str) of a cell of the sheet
IsStr(x) == x # NoText /\ (x = <<>> \/ Head(x) # "<int>")
\* the marketing codes of the six families
MARKETING_CODES == <<<<"A", "3", "2", "0", "n", "e", "o">>, <<"7", "3", "7", " ", "M", "A", "X", " ", "8">>, <<"7", "8", "7", "-", "9">>, <<"A", "3", "5", "0", "-", "9", "0", "0">>, <<"A", "2", "2", "0", "-", "3", "0", "0">>, <<"A", "3", "3", "0", "-", "9", "0", "0", "n", "e", "o">>>>
\* three codes of the 737 MAX
MAX_CODES == <<<<"7", "3", "7", " ", "M", "A", "X", " ", "8">>, <<"7", "M", "8">>, <<"7", "3", "7", "-", "8", "-", "2", "0", "0">>>>
\* the model cells given to the two classifiers: each code as written, in
\* upper case and in lower case, and the integer cell
ClassifierModels ==
    LET codes == Range(MARKETING_CODES) \cup Range(MAX_CODES)
    IN  codes \cup {Upper(c) : c \in codes} \cup {Lower(c) : c \in codes} \cup {INT_787}
\* airline_name values that differ by letter case, whitespace and an accent
VariantNames == {<<"A", "e_acute", "r", "o">>, <<"a", "e", "r", "o", " ">>}
\* a dataset of one row for each model cell, or of two rows of such airlines
ClassifierInputs ==
    {<<[airline_name |-> <<"A", "f">>, model |-> m, country |-> NoText]>> : m \in ClassifierModels}
    \cup {<<[airline_name |-> a, model |-> MARKETING_CODES[1], country |-> NoText],
            [airline_name |-> b, model |-> m, country |-> NoText]>> :
            a \in VariantNames, b \in VariantNames, m \in {MARKETING_CODES[1], MARKETING_CODES[3]}}

(***************************************************************************)
(* Helpers on numeric cells (pandas Series operations, cell by cell)        *)
(***************************************************************************)
\* pd.to_numeric(errors="coerce")
to_num(c) == IF IsNum(c) THEN c ELSE NA
FillNa(c, v) == IF IsNa(c) THEN v ELSE c
Zero == Num(QZero)
One == Num(QOne)
Half == Num(Q(1, 2))
\* a column left as it is where the code clips it
NoClip(c) == c
\* Series.clip(0, 1); NaN stays NaN
Clip01(c) ==
    IF ~IsNum(c) THEN c
    ELSE IF QLt(c, QZero) THEN Zero
    ELSE IF QLt(QOne, c) THEN One
    ELSE c
\* a + b of two cells: NaN if either is NaN
CAdd(a, b) == IF IsNum(a) /\ IsNum(b) THEN Num(QAdd(a, b)) ELSE NA
CMul(a, b) == IF IsNum(a) /\ IsNum(b) THEN Num(QMul(a, b)) ELSE NA
\* a < b of two cells: False if either is NaN
CLt(a, b) == IsNum(a) /\ IsNum(b) /\ QLt(a, b)
CGe(a, b) == IsNum(a) /\ IsNum(b) /\ QLe(b, a)

(***************************************************************************)
(* air1_generate_features.py                                               *)
(***************************************************************************)
MIN_FLEET == 5

\* str(x) / astype(str) of a text cell: an empty cell reads "nan"
AsStr(x) ==
    IF x = NoText THEN <<"n", "a", "n">>
    ELSE IF ~IsStr(x) THEN Tail(x)
    ELSE x

RECURSIVE AsciiOnly(_)
AsciiOnly(s) ==
    IF s = <<>> THEN <<>>
    ELSE (IF IsAscii(Head(s)) THEN <<Head(s)>> ELSE <<>>) \o AsciiOnly(Tail(s))

\* strip, NFKD, encode ascii (errors ignored), upper
normalize_text_series(x) == Upper(AsciiOnly(NFKD(Strip(AsStr(x)))))

\* main calls it on work["model"], which went through astype(str)
detect_new_gen(model) ==
    IF ~IsStr(model) THEN 0
    ELSE IF \E k \in DOMAIN NEWGEN_PATTERNS : Search(NEWGEN_PATTERNS[k], Lower(model))
    THEN 1 ELSE 0

\* the two functions on the texts of the raw dataset, computed once
Air1Name == [s \in RawNames \cup VariantNames |-> normalize_text_series(s)]
Air1Model == [s \in RawModels \cup ClassifierModels |->
                LET m == normalize_text_series(s)
                IN  [model |-> m, new_gen |-> detect_new_gen(m)]]

Air1Work(rows) ==
    [i \in DOMAIN rows |->
        [airline |-> Air1Name[rows[i].airline_name],
         model |-> Air1Model[rows[i].model].model,
         new_gen |-> Air1Model[rows[i].model].new_gen]]

\* indice_public = np.where(fleet_size >= MIN_FLEET, v0, nan)
Air1Public(fleet_size, v0) == IF CGe(fleet_size, Num(QInt(MIN_FLEET))) THEN v0 ELSE NA
\* indice_penalise = v0 * np.minimum(1, fleet_size / MIN_FLEET)
Air1Penalise(fleet_size, v0) ==
    CMul(v0, Num(QMin(QOne, QDiv(fleet_size, QInt(MIN_FLEET)))))

\* work.groupby("airline").agg(size, nunique, mean), then the three indices
Air1Agg(rows) ==
    LET work == Air1Work(rows)
        keys == SortedTexts({work[i].airline : i \in DOMAIN work})
        Row(a) ==
            LET idx == {i \in DOMAIN work : work[i].airline = a}
                size == Num(QInt(Cardinality(idx)))
                share == Num(Q(Cardinality({i \in idx : work[i].new_gen = 1}),
                               Cardinality(idx)))
            IN  [airline |-> a,
                 fleet_size |-> size,
                 models_diversity |-> Num(QInt(Cardinality({work[i].model : i \in idx}))),
                 new_gen_share |-> share,
                 indice_modernite_v0 |-> share,
                 low_fleet_flag |-> IF CLt(size, Num(QInt(MIN_FLEET))) THEN 1 ELSE 0,
                 indice_public |-> Air1Public(size, share),
                 indice_penalise |-> Air1Penalise(size, share)]
    IN  [k \in DOMAIN keys |-> Row(keys[k])]

(***************************************************************************)
(* build_features.py                                                       *)
(***************************************************************************)
\* str(s).strip().upper()
norm_name(s) == Upper(Strip(AsStr(s)))

\* ratio without its final clip(0, 1)
ratio_noclip(num, den) ==
    LET n == FillNa(to_num(num), Zero)
        d == IF IsNum(to_num(den)) /\ den.n # 0 THEN den ELSE NA
        r == IF IsNa(d) THEN NA ELSE Num(QDiv(n, d))
    IN  FillNa(r, Zero)

\* ratio(num, den): num / den with den = 0 or NaN giving 0, clipped to [0,1]
ratio(num, den) ==
    LET n == FillNa(to_num(num), Zero)
        d == IF IsNum(to_num(den)) /\ den.n # 0 THEN den ELSE NA
        r == IF IsNa(d) THEN NA ELSE Num(QDiv(n, d))
    IN  Clip01(FillNa(r, Zero))

\* tag_family without lower(): the patterns applied to the text as written
tag_family_cased(model) ==
    LET s == AsStr(model)
    IN  [is_a220 |-> Search(PAT_a220, s),
         is_787 |-> Search(PAT_b787, s),
         is_a350 |-> Search(PAT_a350, s),
         is_a330neo |-> Search(PAT_a330neo, s),
         is_neo |-> Search(PAT_neo, s),
         is_max |-> Search(PAT_max, s)]

tag_family(model) ==
    LET s == Lower(AsStr(model))
    IN  [is_a220 |-> Search(PAT_a220, s),
         is_787 |-> Search(PAT_b787, s),
         is_a350 |-> Search(PAT_a350, s),
         is_a330neo |-> Search(PAT_a330neo, s),
         is_neo |-> Search(PAT_neo, s),
         is_max |-> Search(PAT_max, s)]

\* norm_name and tag_family on the texts of the model, computed once
AirlineTexts ==
    RawNames \cup VariantNames \cup {Air1Name[s] : s \in RawNames \cup VariantNames} \cup ExtraNames
NormName == [s \in AirlineTexts |-> norm_name(s)]
Tags == [m \in (RawModels \cup ClassifierModels) \ {NoText} |-> tag_family(m)]

\* raw["airline_norm"], row by row
RawKeys(rows) == [i \in DOMAIN rows |-> NormName[rows[i].airline_name]]

\* raw.groupby("airline_norm")[MODEL_COL].nunique(): NaN models are not counted
NModels(rows, key) ==
    Cardinality({rows[i].model : i \in {j \in DOMAIN rows :
                    RawKeys(rows)[j] = key /\ rows[j].model # NoText}})

\* models_by_airline without drop_duplicates(): one pair per raw row
models_by_airline_rows(rows) ==
    LET keys == RawKeys(rows)
        pairs == [i \in DOMAIN rows |-> <<keys[i], rows[i].model>>]
    IN  KeepIdx(pairs, {i \in DOMAIN rows : rows[i].model # NoText})

\* raw[[airline_norm, MODEL_COL]].dropna().drop_duplicates()
models_by_airline(rows) ==
    LET keys == RawKeys(rows)
        pairs == [i \in DOMAIN rows |-> <<keys[i], rows[i].model>>]
    IN  Distinct(KeepIdx(pairs, {i \in DOMAIN rows : rows[i].model # NoText}), {})

\* models_tagged.groupby("airline_norm").sum(): per family, the number of rows of
\* models_by_airline of that airline whose tag is set
FamilyCounts(rows, key) ==
    LET mba == models_by_airline(rows)
        N(fam) == Num(QInt(Cardinality({i \in DOMAIN mba :
                        mba[i][1] = key /\ Tags[mba[i][2]][fam]})))
    IN  [n_a220 |-> N("is_a220"), n_787 |-> N("is_787"), n_a350 |-> N("is_a350"),
         n_a330neo |-> N("is_a330neo"), n_neo |-> N("is_neo"), n_max |-> N("is_max")]

\* indice_public of build_features.py (lines 145-148)
BuildPublic(fleet_size, new_gen_share) ==
    IF IsNa(fleet_size) \/ CLt(fleet_size, Num(QInt(MIN_FLEET))) THEN Zero
    ELSE new_gen_share
\* indice_penalise of build_features.py (lines 149-152)
BuildPenalise(fleet_size, new_gen_share) ==
    IF IsNa(fleet_size) \/ CLt(fleet_size, Num(QInt(MIN_FLEET)))
    THEN CMul(new_gen_share, Num(Q(8, 10)))
    ELSE new_gen_share

\* first occurrence of each airline (drop_duplicates(subset=["airline"], keep="first"))
FirstByAirline(rows) ==
    KeepIdx(rows, {i \in DOMAIN rows : \A j \in 1..(i - 1) : rows[j].airline # rows[i].airline})

\* one row of `out`, from one row of the aggregate (a.cols: its optional columns)
FeatureRow(a, r, rows) ==
    LET key == NormName[r.airline]
        inRaw == \E i \in DOMAIN rows : RawKeys(rows)[i] = key
        has(c) == c \in a.cols
        \* new_gen_share, deduced from indice_modernite_v0 when absent
        hasShare == has("new_gen_share") \/ has("indice_modernite_v0")
        share == IF has("new_gen_share") THEN to_num(r.new_gen_share)
                 ELSE IF has("indice_modernite_v0") THEN to_num(r.indice_modernite_v0)
                 ELSE NA
        fleet == to_num(r.fleet_size)
        n_models == IF inRaw THEN Num(QInt(NModels(rows, key))) ELSE Zero
        fc == IF inRaw THEN FamilyCounts(rows, key)
              ELSE [n_a220 |-> Zero, n_787 |-> Zero, n_a350 |-> Zero,
                    n_a330neo |-> Zero, n_neo |-> Zero, n_max |-> Zero]
        pct_a220 == ratio(fc.n_a220, fleet)
        pct_787 == ratio(fc.n_787, fleet)
        pct_a350 == ratio(fc.n_a350, fleet)
        pct_a330neo == ratio(fc.n_a330neo, fleet)
        pct_neo == ratio(fc.n_neo, fleet)
        pct_max == ratio(fc.n_max, fleet)
        opt(c, v) == IF has(c) THEN to_num(v) ELSE Zero
    IN  [airline |-> r.airline,
         fleet_size |-> FillNa(fleet, Zero),
         n_models |-> n_models,
         diversity |-> ratio(n_models, fleet),
         new_gen_share |-> IF hasShare THEN FillNa(share, Zero) ELSE Zero,
         indice_modernite_v0 |-> IF hasShare THEN FillNa(share, Zero) ELSE Zero,
         indice_public |-> FillNa(IF hasShare THEN BuildPublic(fleet, share)
                                  ELSE opt("indice_public", r.indice_public), Zero),
         indice_penalise |-> FillNa(IF hasShare THEN BuildPenalise(fleet, share)
                                    ELSE opt("indice_penalise", r.indice_penalise), Zero),
         n_a220 |-> fc.n_a220, n_787 |-> fc.n_787, n_a350 |-> fc.n_a350,
         n_a330neo |-> fc.n_a330neo, n_neo |-> fc.n_neo, n_max |-> fc.n_max,
         pct_a220 |-> pct_a220, pct_787 |-> pct_787, pct_a350 |-> pct_a350,
         pct_a330neo |-> pct_a330neo, pct_neo |-> pct_neo, pct_max |-> pct_max,
         pct_newgen_narrow |-> Clip01(CAdd(CAdd(pct_neo, pct_max), pct_a220)),
         pct_newgen_wide |-> Clip01(CAdd(CAdd(pct_787, pct_a350), pct_a330neo))]

\* the whole script: the rows of features_by_airline.csv
BuildFeatures(a, rows) ==
    FirstByAirline([i \in DOMAIN a.rows |-> FeatureRow(a, a.rows[i], rows)])

(***************************************************************************)
(* air9_compute_scores.py                                                  *)
(***************************************************************************)
\* to_prop without the percent reading: to_num(s).fillna(0).clip(0, 1)
to_prop_unscaled(c) == Clip01(FillNa(to_num(c), Zero))

\* to_prop: numeric, a value above 1 read as a percentage, NaN as 0, clipped
to_prop(c) ==
    LET s == to_num(c)
        over1 == CLt(One, s)
        t == IF over1 THEN Num(QDiv(s, QInt(100))) ELSE s
    IN  Clip01(FillNa(t, Zero))

FLEET_TOO_SMALL == <<"f", "l", "e", "e", "t", "_", "t", "o", "o", "_", "s", "m", "a", "l", "l">>
MISSING_COMPONENT == <<"m", "i", "s", "s", "i", "n", "g", "_", "c", "o", "m", "p", "o", "n", "e", "n", "t">>
\* Series.replace("", pd.NA) / .fillna("") on a text cell
ReplaceEmpty(s) == IF s = <<>> THEN NoText ELSE s
FillNaText(s, v) == IF s = NoText THEN v ELSE s
\* (qa + ";" + note).str.strip(";")
AddNote(qa, note) == StripChars(qa \o <<";">> \o note, {";"})

\* section 2: feat.merge(air3[["airline_norm","fleet_size"]], on="airline_norm",
\* how="left", suffixes=("", "_air3")) when fleet_size is absent or has a NaN.
\* Each row of the result: the feat row (src: its index), with fleet_size.
NeedsFleet(f) ==
    "fleet_size" \notin f.cols \/ \E i \in DOMAIN f.rows : IsNa(f.rows[i].fleet_size)
RECURSIVE LeftMergeAir3(_, _, _)
LeftMergeAir3(f, a3, i) ==
    IF i > Len(f.rows) THEN <<>>
    ELSE LET key == NormName[f.rows[i].airline]
             hits == KeepIdx(a3, {j \in DOMAIN a3 : NormName[a3[j].airline] = key})
             \* with a fleet_size column on the left, the right one is named
             \* fleet_size_air3 and fleet_size is the left one
             own == "fleet_size" \in f.cols
             One1(fs3) == [src |-> i, row |-> f.rows[i],
                           fleet_size |-> IF own THEN f.rows[i].fleet_size ELSE fs3]
         IN  (IF hits = <<>> THEN <<One1(NA)>>
              ELSE [j \in DOMAIN hits |-> One1(hits[j].fleet_size)])
             \o LeftMergeAir3(f, a3, i + 1)
\* a3: AIR3_dataset_v1.xlsx (air3 is None when the file does not exist)
WithFleet(f, a3) ==
    IF NeedsFleet(f) /\ a3.present THEN LeftMergeAir3(f, a3.rows, 1)
    ELSE [i \in DOMAIN f.rows |->
            [src |-> i, row |-> f.rows[i],
             fleet_size |-> IF "fleet_size" \in f.cols THEN f.rows[i].fleet_size
                            ELSE Zero]]

\* diversity when the column is absent: (n_models / fleet_size) with inf and NaN
\* replaced by 0, clipped
Air9Diversity(n_models, fleet_size) ==
    LET n == FillNa(to_num(n_models), Zero)
    IN  IF fleet_size.n = 0 THEN Zero
        ELSE Clip01(Num(QDiv(n, fleet_size)))

\* modernity_index with the weights divided by the weight of the components
\* that are not zero (a renormalised index)
ModernityIndexRenormalised(narrow, wide, a220) ==
    LET w == QAdd(QAdd(IF narrow.n = 0 THEN QZero ELSE Q(4, 10),
                       IF wide.n = 0 THEN QZero ELSE Q(4, 10)),
                  IF a220.n = 0 THEN QZero ELSE Q(2, 10))
        x == CAdd(CAdd(CMul(Num(Q(4, 10)), narrow), CMul(Num(Q(4, 10)), wide)),
                  CMul(Num(Q(2, 10)), a220))
    IN  IF w.n = 0 THEN Zero ELSE Clip01(Num(QDiv(x, w)))

\* modernity_index (lines 90-94)
ModernityIndex(narrow, wide, a220) ==
    Clip01(CAdd(CAdd(CMul(Num(Q(4, 10)), FillNa(narrow, Zero)),
                     CMul(Num(Q(4, 10)), FillNa(wide, Zero))),
                CMul(Num(Q(2, 10)), FillNa(a220, Zero))))

\* qa_notes without the closing fillna("")
QaNotesNoFill(fleet_size, narrow, wide, a220) ==
    LET small == CLt(fleet_size, Num(QInt(MIN_FLEET)))
        q1 == IF small THEN AddNote(<<>>, FLEET_TOO_SMALL) ELSE <<>>
        missing_components == IsNa(narrow) \/ IsNa(wide) \/ IsNa(a220)
        q2 == IF missing_components THEN AddNote(q1, MISSING_COMPONENT) ELSE q1
    IN  ReplaceEmpty(q2)

\* qa_notes (lines 97-105), from the frame's columns at that point
QaNotes(fleet_size, narrow, wide, a220) ==
    LET q0 == <<>>
        small == CLt(fleet_size, Num(QInt(MIN_FLEET)))
        q1 == IF small THEN AddNote(q0, FLEET_TOO_SMALL) ELSE q0
        missing_components == IsNa(narrow) \/ IsNa(wide) \/ IsNa(a220)
        q2 == IF missing_components THEN AddNote(q1, MISSING_COMPONENT) ELSE q1
    IN  FillNaText(ReplaceEmpty(q2), <<>>)

\* one row of the frame `feat` after sections 2 to 5
ScoreRow(f, m) ==
    LET r == m.row
        has(c) == c \in f.cols
        fleet == FillNa(to_num(m.fleet_size), Zero)
        diversity == IF ~has("diversity") THEN Air9Diversity(r.n_models, fleet)
                     ELSE to_prop(r.diversity)
        rebuild == ~(has("pct_newgen_narrow") /\ has("pct_newgen_wide"))
        unit(c, v) == to_prop(IF has(c) THEN v ELSE Zero)
        narrow == IF rebuild
                  THEN Clip01(CAdd(CAdd(unit("pct_neo", r.pct_neo), unit("pct_max", r.pct_max)),
                                   unit("pct_a220", r.pct_a220)))
                  ELSE to_prop(r.pct_newgen_narrow)
        wide == IF rebuild
                THEN Clip01(CAdd(CAdd(unit("pct_787", r.pct_787), unit("pct_a350", r.pct_a350)),
                                 unit("pct_a330neo", r.pct_a330neo)))
                ELSE to_prop(r.pct_newgen_wide)
        a220 == to_prop(IF has("pct_a220") THEN r.pct_a220 ELSE Zero)
    IN  [src |-> m.src,
         airline |-> r.airline,
         fleet_size |-> fleet,
         diversity |-> diversity,
         pct_newgen_narrow |-> narrow,
         pct_newgen_wide |-> wide,
         pct_a220 |-> a220,
         modernity_index |-> ModernityIndex(narrow, wide, a220),
         qa_notes |-> QaNotes(fleet, narrow, wide, a220)]

\* SystemExit when features_by_airline.csv or its column airline is missing;
\* to_num(feat.get("n_models", 0)).fillna(0) fails on the scalar 0 when neither
\* diversity nor n_models is a column
Air9Fails(f) ==
    \/ ~f.present
    \/ "airline" \notin f.cols
    \/ ("diversity" \notin f.cols /\ "n_models" \notin f.cols)

ScoreFrame(f, a3) ==
    LET m == WithFleet(f, a3)
    IN  [i \in DOMAIN m |-> ScoreRow(f, m[i])]

V1 == <<"v", "1">>
\* section 6: the columns of airline_scores.csv
ExportScores(fr) ==
    [i \in DOMAIN fr |->
        [airline |-> fr[i].airline, fleet_size |-> fr[i].fleet_size,
         diversity |-> fr[i].diversity, modernity_index |-> fr[i].modernity_index,
         version_v1 |-> V1, qa_notes |-> fr[i].qa_notes]]

(***************************************************************************)
(* air14_region_summary.py                                                 *)
(***************************************************************************)
STOP_WORDS_FR ==
    {<<"A", "R", "A", "B", "E">>,
     <<"A", "R", "A", "B", "E", "S">>,
     <<"D">>,
     <<"D", "E">>,
     <<"D", "E", "S">>,
     <<"D", "U">>,
     <<"E", "M", "I", "R", "A", "T">>,
     <<"E", "M", "I", "R", "A", "T", "S">>,
     <<"E", "T", "A", "T">>,
     <<"E", "T", "A", "T", "S">>,
     <<"E", "T", "A", "T", "S", "U", "N", "I", "S">>,
     <<"F", "E", "D", "E", "R", "A", "L">>,
     <<"F", "E", "D", "E", "R", "A", "L", "E">>,
     <<"L">>,
     <<"L", "A">>,
     <<"L", "E">>,
     <<"L", "E", "S">>,
     <<"R", "E", "P", "U", "B", "L", "I", "Q", "U", "E">>,
     <<"R", "O", "Y", "A", "U", "M", "E">>,
     <<"S", "A", "I", "N", "T">>,
     <<"S", "A", "I", "N", "T", "E">>,
     <<"U", "N", "I", "O", "N">>,
     <<"U", "N", "I", "S">>}

A_Z == {UPPER[i] : i \in 1..26}
\* re.sub(r"\s+", " ", s)
RECURSIVE SquashSpaces(_)
SquashSpaces(s) ==
    IF s = <<>> THEN <<>>
    ELSE IF Head(s) \in SPACECH
         THEN <<" ">> \o SquashSpaces(LStrip(Tail(s), SPACECH))
         ELSE <<Head(s)>> \o SquashSpaces(Tail(s))
\* normalize_str: NFKD, combining marks dropped, upper, strip, every character
\* outside A-Z made a space, runs of spaces squashed
normalize_str(s) ==
    LET a == NFKD(AsStr(s))
        b == KeepIdx(a, {i \in DOMAIN a : a[i] \notin COMBINING})
        c == Strip(Upper(b))
        d == [i \in DOMAIN c |-> IF c[i] \in A_Z THEN c[i] ELSE " "]
    IN  SquashSpaces(d)

\* str.split(): the words between runs of whitespace
Words(s) ==
    LET segs == SplitOn(s, " ", <<>>)
    IN  KeepIdx(segs, {i \in DOMAIN segs : segs[i] # <<>>})

extract_country_tokens(country_clean) ==
    LET tokens == Words(country_clean)
        good == KeepIdx(tokens, {i \in DOMAIN tokens :
                    Len(tokens[i]) >= 4 /\ tokens[i] \notin STOP_WORDS_FR})
    IN  IF good # <<>> THEN good ELSE tokens

\* the rows (country, token) of build_country_token_table, duplicates dropped
RECURSIVE CountryTokenRows(_)
CountryTokenRows(mapping_df) ==
    IF mapping_df = <<>> THEN <<>>
    ELSE LET row == Head(mapping_df)
             toks == extract_country_tokens(normalize_str(row.country))
         IN  [k \in DOMAIN toks |-> <<row.country, toks[k]>>] \o CountryTokenRows(Tail(mapping_df))
build_country_token_table(mapping_df) == Distinct(CountryTokenRows(mapping_df), {})

\* the country of the last row of the token table whose token is in the name
guess_country_last_match(airline_name, token_table) ==
    IF airline_name = NoText THEN NoText
    ELSE LET name_clean == normalize_str(airline_name)
             matches == {i \in DOMAIN token_table :
                            token_table[i][2] # <<>> /\ Contains(name_clean, token_table[i][2])}
         IN  IF name_clean = <<>> \/ matches = {} THEN NoText
             ELSE token_table[CHOOSE i \in matches : \A j \in matches : j <= i][1]

\* guess_country_from_name: the country of the first row of the token table
\* whose token is a substring of the cleaned name; NoText stands for None
guess_country_from_name(airline_name, token_table) ==
    IF airline_name = NoText THEN NoText
    ELSE LET name_clean == normalize_str(airline_name)
             matches == {i \in DOMAIN token_table :
                            token_table[i][2] # <<>> /\ Contains(name_clean, token_table[i][2])}
         IN  IF name_clean = <<>> \/ matches = {} THEN NoText
             ELSE token_table[CHOOSE i \in matches : \A j \in matches : i <= j][1]

MANUAL_COUNTRY_RAW ==
    <<<<<<"S", "A", "L", "A", "M", "A", "I", "R">>, <<"O", "m", "a", "n">>>>,
      <<<<"C", "E", "B", "U", " ", "P", "A", "C", "I", "F", "I", "C">>, <<"P", "h", "i", "l", "i", "p", "p", "i", "n", "e", "s">>>>,
      <<<<"R", "O", "Y", "A", "L", " ", "A", "I", "R", " ", "M", "A", "R", "O", "C">>, <<"M", "a", "r", "o", "c">>>>,
      <<<<"P", "H", "I", "L", "I", "P", "P", "I", "N", "E", " ", "A", "I", "R", "L", "I", "N", "E", "S">>, <<"P", "h", "i", "l", "i", "p", "p", "i", "n", "e", "s">>>>,
      <<<<"A", "E", "R", "O", " ", "M", "O", "N", "G", "O", "L", "I", "A">>, <<"M", "o", "n", "g", "o", "l", "i", "e">>>>,
      <<<<"A", "I", "R", "S", "W", "I", "F", "T">>, <<"P", "h", "i", "l", "i", "p", "p", "i", "n", "e", "s">>>>,
      <<<<"A", "U", "S", "T", "R", "I", "A", " ", "-", " ", "A", "I", "R", " ", "F", "O", "R", "C", "E">>, <<"A", "u", "t", "r", "i", "c", "h", "e">>>>,
      <<<<"B", "R", "A", "Z", "I", "L", " ", "-", " ", "A", "R", "M", "Y">>, <<"B", "r", "e_acute", "s", "i", "l">>>>,
      <<<<"C", "Z", "E", "C", "H", "I", "A", " ", "-", " ", "A", "I", "R", " ", "F", "O", "R", "C", "E">>, <<"R", "e_acute", "p", "u", "b", "l", "i", "q", "u", "e", " ", "t", "c", "h", "e_grave", "q", "u", "e">>>>,
      <<<<"E", "A", "D", "S", " ", "C", "A", "S", "A">>, <<"E", "s", "p", "a", "g", "n", "e">>>>,
      <<<<"M", "A", "V", "I", " ", "G", "A", "K", " ", "A", "I", "R", "L", "I", "N", "E", "S">>, <<"T", "u", "r", "q", "u", "i", "e">>>>,
      <<<<"M", "E", "X", "I", "C", "O", " ", "-", " ", "N", "A", "V", "Y">>, <<"M", "e", "x", "i", "q", "u", "e">>>>,
      <<<<"R", "U", "S", "S", "I", "A", " ", "-", " ", "N", "A", "T", "I", "O", "N", "A", "L", " ", "G", "U", "A", "R", "D">>, <<"R", "u", "s", "s", "i", "e">>>>,
      <<<<"S", "I", "N", "G", "A", "P", "O", "R", "E", " ", "-", " ", "A", "I", "R", " ", "F", "O", "R", "C", "E">>, <<"S", "i", "n", "g", "a", "p", "o", "u", "r">>>>,
      <<<<"S", "P", "A", "I", "N", " ", "-", " ", "G", "U", "A", "R", "D", "I", "A", " ", "C", "I", "V", "I", "L">>, <<"E", "s", "p", "a", "g", "n", "e">>>>,
      <<<<"T", "R", "A", "N", "S", "P", "O", "R", "T", "E", "S", " ", "A", "A", "R", "E", "O", "S", " ", "P", "E", "G", "A", "S", "O">>, <<"M", "e", "x", "i", "q", "u", "e">>>>,
      <<<<"A", "E", "R", "O", " ", "D", "I", "L", "I">>, <<"T", "i", "m", "o", "r", " ", "o", "r", "i", "e", "n", "t", "a", "l">>>>,
      <<<<"B", "E", "R", "M", "U", "D", "A", "I", "R">>, <<"B", "e", "r", "m", "u", "d", "e", "s">>>>,
      <<<<"B", "H", " ", "A", "I", "R">>, <<"B", "u", "l", "g", "a", "r", "i", "e">>>>,
      <<<<"E", "S", "T", "O", "N", "I", "A", " ", "-", " ", "A", "I", "R", " ", "F", "O", "R", "C", "E">>, <<"E", "s", "t", "o", "n", "i", "e">>>>,
      <<<<"F", "L", "Y", "E", "R", "B", "I", "L", " ", "A", "I", "R", "L", "I", "N", "E">>, <<"S", "u", "e_grave", "d", "e">>>>,
      <<<<"G", "R", "E", "E", "C", "E", " ", "-", " ", "A", "R", "M", "Y">>, <<"G", "r", "e_grave", "c", "e">>>>,
      <<<<"H", "Y", "D", "R", "O", "-", "Q", "U", "A", "B", "E", "C">>, <<"C", "a", "n", "a", "d", "a">>>>,
      <<<<"L", "A", "T", "V", "I", "A", " ", "-", " ", "A", "I", "R", " ", "F", "O", "R", "C", "E">>, <<"L", "e", "t", "t", "o", "n", "i", "e">>>>,
      <<<<"L", "I", "F", "T">>, <<"A", "f", "r", "i", "q", "u", "e", " ", "d", "u", " ", "S", "u", "d">>>>,
      <<<<"M", "O", "A", "A", "M", "B", "I", "Q", "U", "E", " ", "E", "X", "P", "R", "E", "S", "S", "O">>, <<"M", "o", "z", "a", "m", "b", "i", "q", "u", "e">>>>,
      <<<<"M", "O", "N", "G", "O", "L", "I", "A", "N", " ", "A", "I", "R", "W", "A", "Y", "S">>, <<"M", "o", "n", "g", "o", "l", "i", "e">>>>,
      <<<<"P", "E", "R", "U", " ", "-", " ", "N", "A", "V", "Y">>, <<"P", "e_acute", "r", "o", "u">>>>,
      <<<<"P", "O", "L", "A", "N", "D", " ", "-", " ", "N", "A", "V", "Y">>, <<"P", "o", "l", "o", "g", "n", "e">>>>,
      <<<<"P", "R", "I", "V", "A", "T", "M", "A", "I", "R">>, <<"S", "u", "i", "s", "s", "e">>>>,
      <<<<"R", "O", "Y", "A", "L", " ", "S", "T", "A", "R", " ", "A", "V", "I", "A", "T", "I", "O", "N">>, <<"E_acute", "t", "a", "t", "s", "-", "U", "n", "i", "s">>>>,
      <<<<"R", "O", "Y", "A", "L", "A", "I", "R", " ", "P", "H", "I", "L", "I", "P", "P", "I", "N", "E", "S">>, <<"P", "h", "i", "l", "i", "p", "p", "i", "n", "e", "s">>>>,
      <<<<"S", "E", "A", "I", "R", " ", "I", "N", "T", "E", "R", "N", "A", "T", "I", "O", "N", "A", "L">>, <<"P", "h", "i", "l", "i", "p", "p", "i", "n", "e", "s">>>>,
      <<<<"S", "E", "R", "V", "I", "C", "I", "O", "S", " ", "A", "A", "R", "E", "O", "S", " ", "I", "L", "S", "A">>, <<"M", "e", "x", "i", "q", "u", "e">>>>,
      <<<<"S", "K", "Y", "H", "I", "G", "H", " ", "D", "O", "M", "I", "N", "I", "C", "A", "N", "A">>, <<"R", "e_acute", "p", "u", "b", "l", "i", "q", "u", "e", " ", "d", "o", "m", "i", "n", "i", "c", "a", "i", "n", "e">>>>,
      <<<<"S", "K", "Y", "J", "E", "T", " ", "A", "I", "R", "L", "I", "N", "E", "S">>, <<"P", "h", "i", "l", "i", "p", "p", "i", "n", "e", "s">>>>,
      <<<<"S", "U", "N", "L", "I", "G", "H", "T", " ", "A", "I", "R">>, <<"P", "h", "i", "l", "i", "p", "p", "i", "n", "e", "s">>>>,
      <<<<"S", "W", "I", "T", "Z", "E", "R", "L", "A", "N", "D", " ", "-", " ", "A", "I", "R", " ", "F", "O", "R", "C", "E">>, <<"S", "u", "i", "s", "s", "e">>>>,
      <<<<"T", "A", "R", " ", "M", "E", "X", "I", "C", "O">>, <<"M", "e", "x", "i", "q", "u", "e">>>>,
      <<<<"Z", "O", "R", "T", "E", " ", "A", "I", "R">>, <<"M", "o", "n", "g", "o", "l", "i", "e">>>>>>

\* {normalize_str(k): v for k, v in MANUAL_COUNTRY_RAW.items()}
MANUAL_COUNTRY ==
    [i \in DOMAIN MANUAL_COUNTRY_RAW |->
        <<normalize_str(MANUAL_COUNTRY_RAW[i][1]), MANUAL_COUNTRY_RAW[i][2]>>]
\* MANUAL_COUNTRY.get(normalize_str(airline_name)); a later item of the dict
\* comprehension replaces an earlier one of the same key
get_manual_country(airline_name) ==
    IF airline_name = NoText THEN NoText
    ELSE LET key == normalize_str(airline_name)
             hits == {i \in DOMAIN MANUAL_COUNTRY : MANUAL_COUNTRY[i][1] = key}
         IN  IF hits = {} THEN NoText
             ELSE MANUAL_COUNTRY[CHOOSE i \in hits : \A j \in hits : j <= i][2]

EXTRA_REGION ==
    <<[country |-> <<"P", "h", "i", "l", "i", "p", "p", "i", "n", "e", "s">>, region |-> <<"A", "s", "i", "a">>],
      [country |-> <<"M", "a", "r", "o", "c">>, region |-> <<"A", "f", "r", "i", "c", "a">>],
      [country |-> <<"M", "o", "n", "g", "o", "l", "i", "e">>, region |-> <<"A", "s", "i", "a">>],
      [country |-> <<"E_acute", "t", "a", "t", "s", "-", "U", "n", "i", "s">>, region |-> <<"N", "o", "r", "t", "h", " ", "A", "m", "e", "r", "i", "c", "a">>]>>

\* mapping = pd.concat([mapping, extra_rows], ignore_index=True)
WithExtraRows(mapping_csv) == mapping_csv \o EXTRA_REGION

\* pairs of texts in the order of a groupby on two keys
PairLt(p, q) == TextLt(p[1], q[1]) \/ (p[1] = q[1] /\ TextLt(p[2], q[2]))
RECURSIVE SortedPairs(_)
SortedPairs(S) ==
    IF S = {} THEN <<>>
    ELSE LET m == CHOOSE x \in S : \A y \in S \ {x} : PairLt(x, y)
         IN  <<m>> \o SortedPairs(S \ {m})
\* tmp = raw.groupby(["airline_name", "country"]).size().reset_index(name="n"):
\* rows with an empty key are left out, groups come in key order
GroupSizes(rows) ==
    LET ok == {i \in DOMAIN rows : rows[i].airline_name # NoText /\ rows[i].country # NoText}
        keys == SortedPairs({<<rows[i].airline_name, rows[i].country>> : i \in ok})
    IN  [k \in DOMAIN keys |->
            [airline_name |-> keys[k][1], country |-> keys[k][2],
             n |-> Cardinality({i \in ok : <<rows[i].airline_name, rows[i].country>> = keys[k]})]]
\* str.upper().str.strip() on astype(str)
airline_key(s) == Strip(Upper(AsStr(s)))
\* tmp.loc[tmp.groupby("airline_name")["n"].idxmax()]: per airline_name, the
\* first row of the largest n; with its airline_key
airline_country(rows) ==
    LET tmp == GroupSizes(rows)
        names == SortedTexts({tmp[k].airline_name : k \in DOMAIN tmp})
        idxmax(nm) ==
            LET K == {k \in DOMAIN tmp : tmp[k].airline_name = nm}
            IN  CHOOSE k \in K : \A j \in K : tmp[j].n < tmp[k].n \/ (tmp[j].n = tmp[k].n /\ k <= j)
    IN  [p \in DOMAIN names |->
            [airline_key |-> airline_key(names[p]), country |-> tmp[idxmax(names[p])].country]]

\* scores.merge(airline_country[["airline_key", "country"]], on="airline_key",
\* how="left"): one row per match, one row with an empty country when none
RECURSIVE MergeCountry(_, _)
MergeCountry(sc, ac) ==
    IF sc = <<>> THEN <<>>
    ELSE LET s == Head(sc)
             key == airline_key(s.airline)
             hits == KeepIdx(ac, {j \in DOMAIN ac : ac[j].airline_key = key})
             Row(c) == [airline |-> s.airline, fleet_size |-> s.fleet_size,
                        diversity |-> s.diversity, modernity_index |-> s.modernity_index,
                        version_v1 |-> s.version_v1, qa_notes |-> s.qa_notes,
                        airline_key |-> key, country |-> c,
                        country_manual |-> NoText, country_guess |-> NoText]
         IN  (IF hits = <<>> THEN <<Row(NoText)>>
              ELSE [j \in DOMAIN hits |-> Row(hits[j].country)])
             \o MergeCountry(Tail(sc), ac)

\* section 4: country_manual on the rows without a country, then fillna
ManualOverride(m) ==
    IF \A i \in DOMAIN m : m[i].country # NoText THEN m
    ELSE [i \in DOMAIN m |->
            LET cm == IF m[i].country = NoText THEN get_manual_country(m[i].airline) ELSE NoText
            IN  [m[i] EXCEPT !.country_manual = cm,
                             !.country = IF @ = NoText THEN cm ELSE @]]

\* section 5 applied to every row of the table, whether it has a country or not
NameHeuristicAll(m, token_table) ==
    [i \in DOMAIN m |->
        LET cg == guess_country_from_name(m[i].airline, token_table)
        IN  [m[i] EXCEPT !.country_guess = cg,
                         !.country = IF cg = NoText THEN @ ELSE cg]]

\* section 5: country_guess on the rows still without a country, then fillna
NameHeuristic(m, token_table) ==
    IF \A i \in DOMAIN m : m[i].country # NoText THEN m
    ELSE [i \in DOMAIN m |->
            LET cg == IF m[i].country = NoText
                      THEN guess_country_from_name(m[i].airline, token_table) ELSE NoText
            IN  [m[i] EXCEPT !.country_guess = cg,
                             !.country = IF @ = NoText THEN cg ELSE @]]

\* TOP_N of air14_region_summary.py
TOP_N == 3

\* a row of merged once section 6 has added country_norm and region
RegionRow(r, cn, reg) ==
    [airline |-> r.airline, fleet_size |-> r.fleet_size, diversity |-> r.diversity,
     modernity_index |-> r.modernity_index, version_v1 |-> r.version_v1,
     qa_notes |-> r.qa_notes, airline_key |-> r.airline_key, country |-> r.country,
     country_manual |-> r.country_manual, country_guess |-> r.country_guess,
     country_norm |-> cn, region |-> reg]

\* section 6: country_norm, then the left merge with mapping[["country_norm", "region"]]
\* (the mapping with its extra rows); one row per mapping row of the same
\* country_norm, in mapping order, and a row without region when there is none
RECURSIVE MergeRegion(_, _)
MergeRegion(m, mp) ==
    IF m = <<>> THEN <<>>
    ELSE LET r == Head(m)
             cn == IF r.country = NoText THEN NoText ELSE normalize_str(r.country)
             hits == IF cn = NoText THEN <<>>
                     ELSE KeepIdx(mp, {j \in DOMAIN mp : normalize_str(mp[j].country) = cn})
         IN  (IF hits = <<>> THEN <<RegionRow(r, cn, NoText)>>
              ELSE [j \in DOMAIN hits |-> RegionRow(r, cn, hits[j].region)])
             \o MergeRegion(Tail(m), mp)

\* missing = merged[merged["region"].isna()][["airline", "country"]].drop_duplicates()
MissingRegion(m) ==
    LET rows == KeepIdx(m, {i \in DOMAIN m : m[i].region = NoText})
    IN  Distinct([i \in DOMAIN rows |-> [airline |-> rows[i].airline, country |-> rows[i].country]], {})

\* a filter on modernity_index alone, which keeps the rows without a region
FinalFilterIndexOnly(m) ==
    KeepIdx(m, {i \in DOMAIN m : IsNum(m[i].modernity_index)})

\* section 7: merged.dropna(subset=["region", "modernity_index"])
FinalFilter(m) ==
    KeepIdx(m, {i \in DOMAIN m : m[i].region # NoText /\ IsNum(m[i].modernity_index)})

\* f"{x:.3f}" as the number it prints: x rounded to the thousandth, halves to even
Round3(x) ==
    LET t == x.n * 1000
        fl == t \div x.d
        rem == t - fl * x.d
        up == 2 * rem > x.d \/ (2 * rem = x.d /\ fl % 2 = 1)
    IN  Q(IF up THEN fl + 1 ELSE fl, 1000)

\* the orders sort_values(col, ascending=False) can leave rows in, vals being
\* their values of col: kind is left at its default "quicksort", which is not a
\* stable sort, so rows of equal value may come out in any order
DescOrders(vals) ==
    {p \in [DOMAIN vals -> DOMAIN vals] :
        /\ \A i, j \in DOMAIN vals : i # j => p[i] # p[j]
        /\ \A i, j \in DOMAIN vals : i < j => ~QLt(vals[p[i]], vals[p[j]])}
IndexColumn(g) == [i \in DOMAIN g |-> g[i].modernity_index]
MeanColumn(t) == [i \in DOMAIN t |-> t[i].mean_modernity_index]

\* build_top_airlines on the rows g of a region taken in the order p:
\* head(top_n), each row as "airline (index)"
build_top_airlines(g, p) ==
    [k \in 1..(IF Len(g) < TOP_N THEN Len(g) ELSE TOP_N) |->
        [airline |-> g[p[k]].airline, modernity_index |-> Round3(g[p[k]].modernity_index)]]

\* the rows of a region, in the order of merged
RegionGroup(m, reg) == KeepIdx(m, {i \in DOMAIN m : m[i].region = reg})
\* the group keys of groupby("region"), sorted
RegionKeys(m) == SortedTexts({m[i].region : i \in DOMAIN m})
\* a count of the rows of the group, a name counted once per row
NRows(g) == Len(g)
\* n_airlines=("airline", "nunique"): the distinct non-null names
NUnique(g) == Cardinality({g[i].airline : i \in DOMAIN g} \ {NoText})
\* mean_modernity_index=("modernity_index", "mean")
MeanIndex(g) == QDiv(QSum([i \in DOMAIN g |-> g[i].modernity_index]), QInt(Len(g)))

\* section 8: the summaries the script can write for the filtered table m, one
\* row per region: summary_basic merged with top_df, sorted by decreasing mean
Summaries(m) ==
    LET keys == RegionKeys(m)
        Tops(reg) == {build_top_airlines(RegionGroup(m, reg), p) :
                        p \in DescOrders(IndexColumn(RegionGroup(m, reg)))}
        Basic(k, top) ==
            [region |-> keys[k], n_airlines |-> NUnique(RegionGroup(m, keys[k])),
             mean_modernity_index |-> MeanIndex(RegionGroup(m, keys[k])),
             top_airlines |-> top]
        AllTops == UNION {Tops(keys[k]) : k \in DOMAIN keys}
        Tables == {[k \in DOMAIN keys |-> Basic(k, tops[k])] :
                      tops \in {f \in [DOMAIN keys -> AllTops] :
                                  \A k \in DOMAIN keys : f[k] \in Tops(keys[k])}}
    IN  UNION {{[k \in DOMAIN t |-> t[p[k]]] : p \in DescOrders(MeanColumn(t))} : t \in Tables}

(***************************************************************************)
(* air13_build_country_mapping.py: the mapping file country_region_mapping.csv *)
(* kept in step with the countries of the dataset.                            *)
(***************************************************************************)
\* The texts pandas.read_csv reads as a missing value; dtype=str does not change
\* that, and fillna("") then makes each of them the empty text.
NA_VALUES ==
    {<<>>, <<"#", "N", "/", "A">>, <<"#", "N", "/", "A", " ", "N", "/", "A">>, <<"#", "N", "A">>, <<"-", "1", ".", "#", "I", "N", "D">>, <<"-", "1", ".", "#", "Q", "N", "A", "N">>, <<"-", "N", "a", "N">>, <<"-", "n", "a", "n">>, <<"1", ".", "#", "I", "N", "D">>, <<"1", ".", "#", "Q", "N", "A", "N">>, <<"<", "N", "A", ">">>, <<"N", "/", "A">>, <<"N", "A">>, <<"N", "U", "L", "L">>, <<"N", "a", "N">>, <<"N", "o", "n", "e">>, <<"n", "/", "a">>, <<"n", "a", "n">>, <<"n", "u", "l", "l">>}
\* a cell of the file as mapping_old holds it
ReadCell(x) == IF x \in NA_VALUES THEN <<>> ELSE x

\* a dictionary as the sequence of its (key, value) pairs
HasKey(dict, key) == \E i \in DOMAIN dict : dict[i][1] = key
Get(dict, key) == dict[CHOOSE i \in DOMAIN dict : dict[i][1] = key][2]

MANUAL_ALPHA2 ==
    <<<<<<"A", "f", "g", "h", "a", "n", "i", "s", "t", "a", "n">>, <<"A", "F">>>>,
      <<<<"A", "f", "r", "i", "q", "u", "e", " ", "d", "u", " ", "S", "u", "d">>, <<"Z", "A">>>>,
      <<<<"A", "l", "b", "a", "n", "i", "e">>, <<"A", "L">>>>,
      <<<<"A", "l", "g", "e_acute", "r", "i", "e">>, <<"D", "Z">>>>,
      <<<<"A", "l", "l", "e", "m", "a", "g", "n", "e">>, <<"D", "E">>>>,
      <<<<"A", "n", "g", "o", "l", "a">>, <<"A", "O">>>>,
      <<<<"A", "n", "g", "u", "i", "l", "l", "a">>, <<"A", "I">>>>,
      <<<<"A", "n", "t", "i", "g", "u", "a", "-", "e", "t", "-", "B", "a", "r", "b", "u", "d", "a">>, <<"A", "G">>>>,
      <<<<"A", "r", "a", "b", "i", "e", " ", "s", "a", "o", "u", "d", "i", "t", "e">>, <<"S", "A">>>>,
      <<<<"A", "r", "g", "e", "n", "t", "i", "n", "e">>, <<"A", "R">>>>,
      <<<<"A", "r", "m", "e_acute", "n", "i", "e">>, <<"A", "M">>>>,
      <<<<"A", "r", "u", "b", "a">>, <<"A", "W">>>>,
      <<<<"A", "u", "t", "r", "i", "c", "h", "e">>, <<"A", "T">>>>,
      <<<<"A", "z", "e", "r", "b", "a", "i_diaer", "d", "j", "a", "n">>, <<"A", "Z">>>>,
      <<<<"B", "a", "h", "a", "m", "a", "s">>, <<"B", "S">>>>,
      <<<<"B", "a", "h", "r", "e", "i_diaer", "n">>, <<"B", "H">>>>,
      <<<<"B", "a", "n", "g", "l", "a", "d", "e", "s", "h">>, <<"B", "D">>>>,
      <<<<"B", "e", "l", "g", "i", "q", "u", "e">>, <<"B", "E">>>>,
      <<<<"B", "e", "l", "i", "z", "e">>, <<"B", "Z">>>>,
      <<<<"B", "e", "r", "m", "u", "d", "e", "s">>, <<"B", "M">>>>,
      <<<<"B", "h", "o", "u", "t", "a", "n">>, <<"B", "T">>>>,
      <<<<"B", "i", "r", "m", "a", "n", "i", "e">>, <<"M", "M">>>>,
      <<<<"B", "i", "e_acute", "l", "o", "r", "u", "s", "s", "i", "e">>, <<"B", "Y">>>>,
      <<<<"B", "o", "l", "i", "v", "i", "e">>, <<"B", "O">>>>,
      <<<<"B", "o", "s", "n", "i", "e", "-", "H", "e", "r", "z", "e_acute", "g", "o", "v", "i", "n", "e">>, <<"B", "A">>>>,
      <<<<"B", "o", "t", "s", "w", "a", "n", "a">>, <<"B", "W">>>>,
      <<<<"B", "r", "u", "n", "e", "i">>, <<"B", "N">>>>,
      <<<<"B", "r", "e_acute", "s", "i", "l">>, <<"B", "R">>>>,
      <<<<"B", "u", "l", "g", "a", "r", "i", "e">>, <<"B", "G">>>>,
      <<<<"B", "u", "r", "k", "i", "n", "a", " ", "F", "a", "s", "o">>, <<"B", "F">>>>,
      <<<<"B", "e_acute", "n", "i", "n">>, <<"B", "J">>>>,
      <<<<"C", "a", "m", "b", "o", "d", "g", "e">>, <<"K", "H">>>>,
      <<<<"C", "a", "m", "e", "r", "o", "u", "n">>, <<"C", "M">>>>,
      <<<<"C", "a", "n", "a", "d", "a">>, <<"C", "A">>>>,
      <<<<"C", "a", "p", "-", "V", "e", "r", "t">>, <<"C", "V">>>>,
      <<<<"C", "h", "i", "l", "i">>, <<"C", "L">>>>,
      <<<<"C", "h", "y", "p", "r", "e">>, <<"C", "Y">>>>,
      <<<<"C", "o", "l", "o", "m", "b", "i", "e">>, <<"C", "O">>>>,
      <<<<"C", "o", "r", "e_acute", "e", " ", "d", "u", " ", "N", "o", "r", "d">>, <<"K", "P">>>>,
      <<<<"C", "o", "r", "e_acute", "e", " ", "d", "u", " ", "S", "u", "d">>, <<"K", "R">>>>,
      <<<<"C", "o", "s", "t", "a", " ", "R", "i", "c", "a">>, <<"C", "R">>>>,
      <<<<"C", "r", "o", "a", "t", "i", "e">>, <<"H", "R">>>>,
      <<<<"C", "o_circ", "t", "e", " ", "d", "'", "I", "v", "o", "i", "r", "e">>, <<"C", "I">>>>,
      <<<<"E", "s", "p", "a", "g", "n", "e">>, <<"E", "S">>>>,
      <<<<"E", "s", "t", "o", "n", "i", "e">>, <<"E", "E">>>>,
      <<<<"E", "s", "w", "a", "t", "i", "n", "i">>, <<"S", "Z">>>>,
      <<<<"F", "i", "d", "j", "i">>, <<"F", "J">>>>,
      <<<<"F", "i", "n", "l", "a", "n", "d", "e">>, <<"F", "I">>>>,
      <<<<"F", "r", "a", "n", "c", "e">>, <<"F", "R">>>>,
      <<<<"G", "a", "b", "o", "n">>, <<"G", "A">>>>,
      <<<<"G", "a", "m", "b", "i", "e">>, <<"G", "M">>>>,
      <<<<"G", "h", "a", "n", "a">>, <<"G", "H">>>>,
      <<<<"G", "r", "e_grave", "c", "e">>, <<"G", "R">>>>,
      <<<<"G", "u", "a", "t", "e", "m", "a", "l", "a">>, <<"G", "T">>>>,
      <<<<"G", "u", "e", "r", "n", "e", "s", "e", "y">>, <<"G", "G">>>>,
      <<<<"G", "u", "i", "n", "e_acute", "e", " ", "e_acute", "q", "u", "a", "t", "o", "r", "i", "a", "l", "e">>, <<"G", "Q">>>>,
      <<<<"G", "u", "y", "a", "n", "a">>, <<"G", "Y">>>>,
      <<<<"G", "e_acute", "o", "r", "g", "i", "e">>, <<"G", "E">>>>,
      <<<<"H", "o", "n", "d", "u", "r", "a", "s">>, <<"H", "N">>>>,
      <<<<"H", "o", "n", "g", " ", "K", "o", "n", "g">>, <<"H", "K">>>>,
      <<<<"H", "o", "n", "g", "r", "i", "e">>, <<"H", "U">>>>,
      <<<<"I", "n", "d", "e">>, <<"I", "N">>>>,
      <<<<"I", "r", "a", "k">>, <<"I", "Q">>>>,
      <<<<"I", "r", "a", "n">>, <<"I", "R">>>>,
      <<<<"I", "r", "l", "a", "n", "d", "e">>, <<"I", "E">>>>,
      <<<<"I", "s", "l", "a", "n", "d", "e">>, <<"I", "S">>>>,
      <<<<"I", "t", "a", "l", "i", "e">>, <<"I", "T">>>>,
      <<<<"J", "a", "p", "o", "n">>, <<"J", "P">>>>,
      <<<<"J", "o", "r", "d", "a", "n", "i", "e">>, <<"J", "O">>>>,
      <<<<"K", "a", "z", "a", "k", "h", "s", "t", "a", "n">>, <<"K", "Z">>>>,
      <<<<"K", "e", "n", "y", "a">>, <<"K", "E">>>>,
      <<<<"K", "i", "r", "g", "h", "i", "z", "i", "s", "t", "a", "n">>, <<"K", "G">>>>,
      <<<<"K", "i", "r", "i", "b", "a", "t", "i">>, <<"K", "I">>>>,
      <<<<"K", "o", "w", "e", "i_diaer", "t">>, <<"K", "W">>>>,
      <<<<"L", "a", "o", "s">>, <<"L", "A">>>>,
      <<<<"L", "e", "t", "t", "o", "n", "i", "e">>, <<"L", "V">>>>,
      <<<<"L", "i", "b", "a", "n">>, <<"L", "B">>>>,
      <<<<"L", "i", "b", "y", "e">>, <<"L", "Y">>>>,
      <<<<"L", "i", "t", "u", "a", "n", "i", "e">>, <<"L", "T">>>>,
      <<<<"L", "u", "x", "e", "m", "b", "o", "u", "r", "g">>, <<"L", "U">>>>,
      <<<<"M", "a", "c", "a", "o">>, <<"M", "O">>>>,
      <<<<"M", "a", "d", "a", "g", "a", "s", "c", "a", "r">>, <<"M", "G">>>>,
      <<<<"M", "a", "l", "a", "i", "s", "i", "e">>, <<"M", "Y">>>>,
      <<<<"M", "a", "l", "a", "w", "i">>, <<"M", "W">>>>,
      <<<<"M", "a", "l", "d", "i", "v", "e", "s">>, <<"M", "V">>>>,
      <<<<"M", "a", "l", "i">>, <<"M", "L">>>>,
      <<<<"M", "a", "l", "t", "e">>, <<"M", "T">>>>,
      <<<<"M", "a", "u", "r", "i", "c", "e">>, <<"M", "U">>>>,
      <<<<"M", "a", "u", "r", "i", "t", "a", "n", "i", "e">>, <<"M", "R">>>>,
      <<<<"M", "e", "x", "i", "q", "u", "e">>, <<"M", "X">>>>,
      <<<<"M", "o", "l", "d", "a", "v", "i", "e">>, <<"M", "D">>>>,
      <<<<"M", "o", "n", "a", "c", "o">>, <<"M", "C">>>>,
      <<<<"M", "o", "n", "t", "e_acute", "n", "e_acute", "g", "r", "o">>, <<"M", "E">>>>,
      <<<<"M", "o", "z", "a", "m", "b", "i", "q", "u", "e">>, <<"M", "Z">>>>,
      <<<<"N", "a", "m", "i", "b", "i", "e">>, <<"N", "A">>>>,
      <<<<"N", "i", "c", "a", "r", "a", "g", "u", "a">>, <<"N", "I">>>>,
      <<<<"N", "i", "g", "e", "r", "i", "a">>, <<"N", "G">>>>,
      <<<<"N", "o", "u", "v", "e", "l", "l", "e", "-", "Z", "e_acute", "l", "a", "n", "d", "e">>, <<"N", "Z">>>>,
      <<<<"N", "e_acute", "p", "a", "l">>, <<"N", "P">>>>,
      <<<<"O", "m", "a", "n">>, <<"O", "M">>>>,
      <<<<"O", "u", "g", "a", "n", "d", "a">>, <<"U", "G">>>>,
      <<<<"O", "u", "z", "b", "e_acute", "k", "i", "s", "t", "a", "n">>, <<"U", "Z">>>>,
      <<<<"P", "a", "k", "i", "s", "t", "a", "n">>, <<"P", "K">>>>,
      <<<<"P", "a", "n", "a", "m", "a">>, <<"P", "A">>>>,
      <<<<"P", "a", "p", "o", "u", "a", "s", "i", "e", "-", "N", "o", "u", "v", "e", "l", "l", "e", "-", "G", "u", "i", "n", "e_acute", "e">>, <<"P", "G">>>>,
      <<<<"P", "a", "r", "a", "g", "u", "a", "y">>, <<"P", "Y">>>>,
      <<<<"P", "a", "y", "s", "-", "B", "a", "s">>, <<"N", "L">>>>,
      <<<<"P", "o", "l", "o", "g", "n", "e">>, <<"P", "L">>>>,
      <<<<"P", "o", "l", "y", "n", "e_acute", "s", "i", "e", " ", "f", "r", "a", "n", "c_cedil", "a", "i", "s", "e">>, <<"P", "F">>>>,
      <<<<"P", "o", "r", "t", "o", " ", "R", "i", "c", "o">>, <<"P", "R">>>>,
      <<<<"P", "o", "r", "t", "u", "g", "a", "l">>, <<"P", "T">>>>,
      <<<<"P", "e_acute", "r", "o", "u">>, <<"P", "E">>>>,
      <<<<"Q", "a", "t", "a", "r">>, <<"Q", "A">>>>,
      <<<<"R", "o", "u", "m", "a", "n", "i", "e">>, <<"R", "O">>>>,
      <<<<"R", "u", "s", "s", "i", "e">>, <<"R", "U">>>>,
      <<<<"R", "w", "a", "n", "d", "a">>, <<"R", "W">>>>,
      <<<<"R", "e_acute", "p", "u", "b", "l", "i", "q", "u", "e", " ", "c", "e", "n", "t", "r", "a", "f", "r", "i", "c", "a", "i", "n", "e">>, <<"C", "F">>>>,
      <<<<"R", "e_acute", "p", "u", "b", "l", "i", "q", "u", "e", " ", "d", "o", "m", "i", "n", "i", "c", "a", "i", "n", "e">>, <<"D", "O">>>>,
      <<<<"R", "e_acute", "p", "u", "b", "l", "i", "q", "u", "e", " ", "d", "u", " ", "C", "o", "n", "g", "o">>, <<"C", "G">>>>,
      <<<<"R", "e_acute", "p", "u", "b", "l", "i", "q", "u", "e", " ", "d", "e_acute", "m", "o", "c", "r", "a", "t", "i", "q", "u", "e", " ", "d", "u", " ", "C", "o", "n", "g", "o">>, <<"C", "D">>>>,
      <<<<"R", "e_acute", "p", "u", "b", "l", "i", "q", "u", "e", " ", "t", "c", "h", "e_grave", "q", "u", "e">>, <<"C", "Z">>>>,
      <<<<"S", "a", "i", "n", "t", "-", "M", "a", "r", "i", "n">>, <<"S", "M">>>>,
      <<<<"S", "a", "i", "n", "t", "-", "V", "i", "n", "c", "e", "n", "t", "-", "e", "t", "-", "l", "e", "s", "-", "G", "r", "e", "n", "a", "d", "i", "n", "e", "s">>, <<"V", "C">>>>,
      <<<<"S", "a", "m", "o", "a">>, <<"W", "S">>>>,
      <<<<"S", "e", "r", "b", "i", "e">>, <<"R", "S">>>>,
      <<<<"S", "e", "y", "c", "h", "e", "l", "l", "e", "s">>, <<"S", "C">>>>,
      <<<<"S", "i", "n", "g", "a", "p", "o", "u", "r">>, <<"S", "G">>>>,
      <<<<"S", "l", "o", "v", "a", "q", "u", "i", "e">>, <<"S", "K">>>>,
      <<<<"S", "l", "o", "v", "e_acute", "n", "i", "e">>, <<"S", "I">>>>,
      <<<<"S", "o", "m", "a", "l", "i", "e">>, <<"S", "O">>>>,
      <<<<"S", "o", "u", "d", "a", "n">>, <<"S", "D">>>>,
      <<<<"S", "r", "i", " ", "L", "a", "n", "k", "a">>, <<"L", "K">>>>,
      <<<<"S", "u", "i", "s", "s", "e">>, <<"C", "H">>>>,
      <<<<"S", "u", "r", "i", "n", "a", "m", "e">>, <<"S", "R">>>>,
      <<<<"S", "u", "e_grave", "d", "e">>, <<"S", "E">>>>,
      <<<<"S", "v", "a", "l", "b", "a", "r", "d", " ", "e", "t", " ", "i", "l", "e", " ", "J", "a", "n", " ", "M", "a", "y", "e", "n">>, <<"S", "J">>>>,
      <<<<"S", "y", "r", "i", "e">>, <<"S", "Y">>>>,
      <<<<"S", "e_acute", "n", "e_acute", "g", "a", "l">>, <<"S", "N">>>>,
      <<<<"T", "a", "d", "j", "i", "k", "i", "s", "t", "a", "n">>, <<"T", "J">>>>,
      <<<<"T", "a", "n", "z", "a", "n", "i", "e">>, <<"T", "Z">>>>,
      <<<<"T", "a", "i_diaer", "w", "a", "n">>, <<"T", "W">>>>,
      <<<<"T", "e", "r", "r", "i", "t", "o", "i", "r", "e", " ", "b", "r", "i", "t", "a", "n", "n", "i", "q", "u", "e", " ", "d", "e", " ", "l", "'", "o", "c", "e_acute", "a", "n", " ", "I", "n", "d", "i", "e", "n">>, <<"I", "O">>>>,
      <<<<"T", "h", "a", "i_diaer", "l", "a", "n", "d", "e">>, <<"T", "H">>>>,
      <<<<"T", "i", "m", "o", "r", " ", "o", "r", "i", "e", "n", "t", "a", "l">>, <<"T", "L">>>>,
      <<<<"T", "o", "g", "o">>, <<"T", "G">>>>,
      <<<<"T", "o", "n", "g", "a">>, <<"T", "O">>>>,
      <<<<"T", "r", "i", "n", "i", "t", "e_acute", "-", "e", "t", "-", "T", "o", "b", "a", "g", "o">>, <<"T", "T">>>>,
      <<<<"T", "u", "n", "i", "s", "i", "e">>, <<"T", "N">>>>,
      <<<<"T", "u", "r", "k", "m", "e_acute", "n", "i", "s", "t", "a", "n">>, <<"T", "M">>>>,
      <<<<"T", "u", "r", "q", "u", "i", "e">>, <<"T", "R">>>>,
      <<<<"U", "k", "r", "a", "i", "n", "e">>, <<"U", "A">>>>,
      <<<<"U", "r", "u", "g", "u", "a", "y">>, <<"U", "Y">>>>,
      <<<<"V", "a", "n", "u", "a", "t", "u">>, <<"V", "U">>>>,
      <<<<"V", "e", "n", "e", "z", "u", "e", "l", "a">>, <<"V", "E">>>>,
      <<<<"V", "i", "e", "t", "n", "a", "m">>, <<"V", "N">>>>,
      <<<<"Y", "e_acute", "m", "e", "n">>, <<"Y", "E">>>>,
      <<<<"Z", "a", "m", "b", "i", "e">>, <<"Z", "M">>>>,
      <<<<"Z", "i", "m", "b", "a", "b", "w", "e">>, <<"Z", "W">>>>,
      <<<<"E_acute", "g", "y", "p", "t", "e">>, <<"E", "G">>>>,
      <<<<"E_acute", "m", "i", "r", "a", "t", "s", " ", "a", "r", "a", "b", "e", "s", " ", "u", "n", "i", "s">>, <<"A", "E">>>>,
      <<<<"E_acute", "q", "u", "a", "t", "e", "u", "r">>, <<"E", "C">>>>,
      <<<<"E_acute", "t", "h", "i", "o", "p", "i", "e">>, <<"E", "T">>>>,
      <<<<"I_circ", "l", "e", " ", "d", "e", " ", "M", "a", "n">>, <<"I", "M">>>>,
      <<<<"I_circ", "l", "e", "s", " ", "C", "a", "i_diaer", "m", "a", "n", "s">>, <<"K", "Y">>>>,
      <<<<"I_circ", "l", "e", "s", " ", "C", "o", "c", "o", "s">>, <<"C", "C">>>>,
      <<<<"I_circ", "l", "e", "s", " ", "F", "e_acute", "r", "o", "e_acute">>, <<"F", "O">>>>,
      <<<<"I_circ", "l", "e", "s", " ", "S", "a", "l", "o", "m", "o", "n">>, <<"S", "B">>>>,
      <<<<"I_circ", "l", "e", "s", " ", "T", "u", "r", "q", "u", "e", "s", "-", "e", "t", "-", "C", "a", "i_diaer", "q", "u", "e", "s">>, <<"T", "C">>>>>>

MANUAL_REGION ==
    <<<<<<"A", "f", "g", "h", "a", "n", "i", "s", "t", "a", "n">>, <<"A", "s", "i", "a">>>>,
      <<<<"A", "f", "r", "i", "q", "u", "e", " ", "d", "u", " ", "S", "u", "d">>, <<"A", "f", "r", "i", "c", "a">>>>,
      <<<<"A", "l", "b", "a", "n", "i", "e">>, <<"E", "u", "r", "o", "p", "e">>>>,
      <<<<"A", "l", "g", "e_acute", "r", "i", "e">>, <<"A", "f", "r", "i", "c", "a">>>>,
      <<<<"A", "l", "l", "e", "m", "a", "g", "n", "e">>, <<"E", "u", "r", "o", "p", "e">>>>,
      <<<<"A", "n", "g", "o", "l", "a">>, <<"A", "f", "r", "i", "c", "a">>>>,
      <<<<"A", "n", "g", "u", "i", "l", "l", "a">>, <<"C", "a", "r", "i", "b", "b", "e", "a", "n">>>>,
      <<<<"A", "n", "t", "i", "g", "u", "a", "-", "e", "t", "-", "B", "a", "r", "b", "u", "d", "a">>, <<"C", "a", "r", "i", "b", "b", "e", "a", "n">>>>,
      <<<<"A", "r", "a", "b", "i", "e", " ", "s", "a", "o", "u", "d", "i", "t", "e">>, <<"M", "i", "d", "d", "l", "e", " ", "E", "a", "s", "t">>>>,
      <<<<"A", "r", "g", "e", "n", "t", "i", "n", "e">>, <<"S", "o", "u", "t", "h", " ", "A", "m", "e", "r", "i", "c", "a">>>>,
      <<<<"A", "r", "m", "e_acute", "n", "i", "e">>, <<"A", "s", "i", "a">>>>,
      <<<<"A", "r", "u", "b", "a">>, <<"C", "a", "r", "i", "b", "b", "e", "a", "n">>>>,
      <<<<"A", "u", "t", "r", "i", "c", "h", "e">>, <<"E", "u", "r", "o", "p", "e">>>>,
      <<<<"A", "z", "e", "r", "b", "a", "i_diaer", "d", "j", "a", "n">>, <<"A", "s", "i", "a">>>>,
      <<<<"B", "a", "h", "a", "m", "a", "s">>, <<"C", "a", "r", "i", "b", "b", "e", "a", "n">>>>,
      <<<<"B", "a", "h", "r", "e", "i_diaer", "n">>, <<"M", "i", "d", "d", "l", "e", " ", "E", "a", "s", "t">>>>,
      <<<<"B", "a", "n", "g", "l", "a", "d", "e", "s", "h">>, <<"A", "s", "i", "a">>>>,
      <<<<"B", "e", "l", "g", "i", "q", "u", "e">>, <<"E", "u", "r", "o", "p", "e">>>>,
      <<<<"B", "e", "l", "i", "z", "e">>, <<"N", "o", "r", "t", "h", " ", "A", "m", "e", "r", "i", "c", "a">>>>,
      <<<<"B", "e", "r", "m", "u", "d", "e", "s">>, <<"N", "o", "r", "t", "h", " ", "A", "m", "e", "r", "i", "c", "a">>>>,
      <<<<"B", "h", "o", "u", "t", "a", "n">>, <<"A", "s", "i", "a">>>>,
      <<<<"B", "i", "r", "m", "a", "n", "i", "e">>, <<"A", "s", "i", "a">>>>,
      <<<<"B", "i", "e_acute", "l", "o", "r", "u", "s", "s", "i", "e">>, <<"E", "u", "r", "o", "p", "e">>>>,
      <<<<"B", "o", "l", "i", "v", "i", "e">>, <<"S", "o", "u", "t", "h", " ", "A", "m", "e", "r", "i", "c", "a">>>>,
      <<<<"B", "o", "s", "n", "i", "e", "-", "H", "e", "r", "z", "e_acute", "g", "o", "v", "i", "n", "e">>, <<"E", "u", "r", "o", "p", "e">>>>,
      <<<<"B", "o", "t", "s", "w", "a", "n", "a">>, <<"A", "f", "r", "i", "c", "a">>>>,
      <<<<"B", "r", "u", "n", "e", "i">>, <<"A", "s", "i", "a">>>>,
      <<<<"B", "r", "e_acute", "s", "i", "l">>, <<"S", "o", "u", "t", "h", " ", "A", "m", "e", "r", "i", "c", "a">>>>,
      <<<<"B", "u", "l", "g", "a", "r", "i", "e">>, <<"E", "u", "r", "o", "p", "e">>>>,
      <<<<"B", "u", "r", "k", "i", "n", "a", " ", "F", "a", "s", "o">>, <<"A", "f", "r", "i", "c", "a">>>>,
      <<<<"B", "e_acute", "n", "i", "n">>, <<"A", "f", "r", "i", "c", "a">>>>,
      <<<<"C", "a", "m", "b", "o", "d", "g", "e">>, <<"A", "s", "i", "a">>>>,
      <<<<"C", "a", "m", "e", "r", "o", "u", "n">>, <<"A", "f", "r", "i", "c", "a">>>>,
      <<<<"C", "a", "n", "a", "d", "a">>, <<"N", "o", "r", "t", "h", " ", "A", "m", "e", "r", "i", "c", "a">>>>,
      <<<<"C", "a", "p", "-", "V", "e", "r", "t">>, <<"A", "f", "r", "i", "c", "a">>>>,
      <<<<"C", "h", "i", "l", "i">>, <<"S", "o", "u", "t", "h", " ", "A", "m", "e", "r", "i", "c", "a">>>>,
      <<<<"C", "h", "y", "p", "r", "e">>, <<"E", "u", "r", "o", "p", "e">>>>,
      <<<<"C", "o", "l", "o", "m", "b", "i", "e">>, <<"S", "o", "u", "t", "h", " ", "A", "m", "e", "r", "i", "c", "a">>>>,
      <<<<"C", "o", "r", "e_acute", "e", " ", "d", "u", " ", "N", "o", "r", "d">>, <<"A", "s", "i", "a">>>>,
      <<<<"C", "o", "r", "e_acute", "e", " ", "d", "u", " ", "S", "u", "d">>, <<"A", "s", "i", "a">>>>,
      <<<<"C", "o", "s", "t", "a", " ", "R", "i", "c", "a">>, <<"N", "o", "r", "t", "h", " ", "A", "m", "e", "r", "i", "c", "a">>>>,
      <<<<"C", "r", "o", "a", "t", "i", "e">>, <<"E", "u", "r", "o", "p", "e">>>>,
      <<<<"C", "o_circ", "t", "e", " ", "d", "'", "I", "v", "o", "i", "r", "e">>, <<"A", "f", "r", "i", "c", "a">>>>,
      <<<<"E", "s", "p", "a", "g", "n", "e">>, <<"E", "u", "r", "o", "p", "e">>>>,
      <<<<"E", "s", "t", "o", "n", "i", "e">>, <<"E", "u", "r", "o", "p", "e">>>>,
      <<<<"E", "s", "w", "a", "t", "i", "n", "i">>, <<"A", "f", "r", "i", "c", "a">>>>,
      <<<<"F", "i", "d", "j", "i">>, <<"O", "c", "e", "a", "n", "i", "a">>>>,
      <<<<"F", "i", "n", "l", "a", "n", "d", "e">>, <<"E", "u", "r", "o", "p", "e">>>>,
      <<<<"F", "r", "a", "n", "c", "e">>, <<"E", "u", "r", "o", "p", "e">>>>,
      <<<<"G", "a", "b", "o", "n">>, <<"A", "f", "r", "i", "c", "a">>>>,
      <<<<"G", "a", "m", "b", "i", "e">>, <<"A", "f", "r", "i", "c", "a">>>>,
      <<<<"G", "h", "a", "n", "a">>, <<"A", "f", "r", "i", "c", "a">>>>,
      <<<<"G", "r", "e_grave", "c", "e">>, <<"E", "u", "r", "o", "p", "e">>>>,
      <<<<"G", "u", "a", "t", "e", "m", "a", "l", "a">>, <<"N", "o", "r", "t", "h", " ", "A", "m", "e", "r", "i", "c", "a">>>>,
      <<<<"G", "u", "e", "r", "n", "e", "s", "e", "y">>, <<"E", "u", "r", "o", "p", "e">>>>,
      <<<<"G", "u", "i", "n", "e_acute", "e", " ", "e_acute", "q", "u", "a", "t", "o", "r", "i", "a", "l", "e">>, <<"A", "f", "r", "i", "c", "a">>>>,
      <<<<"G", "u", "y", "a", "n", "a">>, <<"S", "o", "u", "t", "h", " ", "A", "m", "e", "r", "i", "c", "a">>>>,
      <<<<"G", "e_acute", "o", "r", "g", "i", "e">>, <<"A", "s", "i", "a">>>>,
      <<<<"H", "o", "n", "d", "u", "r", "a", "s">>, <<"N", "o", "r", "t", "h", " ", "A", "m", "e", "r", "i", "c", "a">>>>,
      <<<<"H", "o", "n", "g", " ", "K", "o", "n", "g">>, <<"A", "s", "i", "a">>>>,
      <<<<"H", "o", "n", "g", "r", "i", "e">>, <<"E", "u", "r", "o", "p", "e">>>>,
      <<<<"I", "n", "d", "e">>, <<"A", "s", "i", "a">>>>,
      <<<<"I", "r", "a", "k">>, <<"M", "i", "d", "d", "l", "e", " ", "E", "a", "s", "t">>>>,
      <<<<"I", "r", "a", "n">>, <<"M", "i", "d", "d", "l", "e", " ", "E", "a", "s", "t">>>>,
      <<<<"I", "r", "l", "a", "n", "d", "e">>, <<"E", "u", "r", "o", "p", "e">>>>,
      <<<<"I", "s", "l", "a", "n", "d", "e">>, <<"E", "u", "r", "o", "p", "e">>>>,
      <<<<"I", "t", "a", "l", "i", "e">>, <<"E", "u", "r", "o", "p", "e">>>>,
      <<<<"J", "a", "p", "o", "n">>, <<"A", "s", "i", "a">>>>,
      <<<<"J", "o", "r", "d", "a", "n", "i", "e">>, <<"M", "i", "d", "d", "l", "e", " ", "E", "a", "s", "t">>>>,
      <<<<"K", "a", "z", "a", "k", "h", "s", "t", "a", "n">>, <<"A", "s", "i", "a">>>>,
      <<<<"K", "e", "n", "y", "a">>, <<"A", "f", "r", "i", "c", "a">>>>,
      <<<<"K", "i", "r", "g", "h", "i", "z", "i", "s", "t", "a", "n">>, <<"A", "s", "i", "a">>>>,
      <<<<"K", "i", "r", "i", "b", "a", "t", "i">>, <<"O", "c", "e", "a", "n", "i", "a">>>>,
      <<<<"K", "o", "w", "e", "i_diaer", "t">>, <<"M", "i", "d", "d", "l", "e", " ", "E", "a", "s", "t">>>>,
      <<<<"L", "a", "o", "s">>, <<"A", "s", "i", "a">>>>,
      <<<<"L", "e", "t", "t", "o", "n", "i", "e">>, <<"E", "u", "r", "o", "p", "e">>>>,
      <<<<"L", "i", "b", "a", "n">>, <<"M", "i", "d", "d", "l", "e", " ", "E", "a", "s", "t">>>>,
      <<<<"L", "i", "b", "y", "e">>, <<"A", "f", "r", "i", "c", "a">>>>,
      <<<<"L", "i", "t", "u", "a", "n", "i", "e">>, <<"E", "u", "r", "o", "p", "e">>>>,
      <<<<"L", "u", "x", "e", "m", "b", "o", "u", "r", "g">>, <<"E", "u", "r", "o", "p", "e">>>>,
      <<<<"M", "a", "c", "a", "o">>, <<"A", "s", "i", "a">>>>,
      <<<<"M", "a", "d", "a", "g", "a", "s", "c", "a", "r">>, <<"A", "f", "r", "i", "c", "a">>>>,
      <<<<"M", "a", "l", "a", "i", "s", "i", "e">>, <<"A", "s", "i", "a">>>>,
      <<<<"M", "a", "l", "a", "w", "i">>, <<"A", "f", "r", "i", "c", "a">>>>,
      <<<<"M", "a", "l", "d", "i", "v", "e", "s">>, <<"A", "s", "i", "a">>>>,
      <<<<"M", "a", "l", "i">>, <<"A", "f", "r", "i", "c", "a">>>>,
      <<<<"M", "a", "l", "t", "e">>, <<"E", "u", "r", "o", "p", "e">>>>,
      <<<<"M", "a", "u", "r", "i", "c", "e">>, <<"A", "f", "r", "i", "c", "a">>>>,
      <<<<"M", "a", "u", "r", "i", "t", "a", "n", "i", "e">>, <<"A", "f", "r", "i", "c", "a">>>>,
      <<<<"M", "e", "x", "i", "q", "u", "e">>, <<"N", "o", "r", "t", "h", " ", "A", "m", "e", "r", "i", "c", "a">>>>,
      <<<<"M", "o", "l", "d", "a", "v", "i", "e">>, <<"E", "u", "r", "o", "p", "e">>>>,
      <<<<"M", "o", "n", "a", "c", "o">>, <<"E", "u", "r", "o", "p", "e">>>>,
      <<<<"M", "o", "n", "t", "e_acute", "n", "e_acute", "g", "r", "o">>, <<"E", "u", "r", "o", "p", "e">>>>,
      <<<<"M", "o", "z", "a", "m", "b", "i", "q", "u", "e">>, <<"A", "f", "r", "i", "c", "a">>>>,
      <<<<"N", "a", "m", "i", "b", "i", "e">>, <<"A", "f", "r", "i", "c", "a">>>>,
      <<<<"N", "i", "c", "a", "r", "a", "g", "u", "a">>, <<"N", "o", "r", "t", "h", " ", "A", "m", "e", "r", "i", "c", "a">>>>,
      <<<<"N", "i", "g", "e", "r", "i", "a">>, <<"A", "f", "r", "i", "c", "a">>>>,
      <<<<"N", "o", "u", "v", "e", "l", "l", "e", "-", "Z", "e_acute", "l", "a", "n", "d", "e">>, <<"O", "c", "e", "a", "n", "i", "a">>>>,
      <<<<"N", "e_acute", "p", "a", "l">>, <<"A", "s", "i", "a">>>>,
      <<<<"O", "m", "a", "n">>, <<"M", "i", "d", "d", "l", "e", " ", "E", "a", "s", "t">>>>,
      <<<<"O", "u", "g", "a", "n", "d", "a">>, <<"A", "f", "r", "i", "c", "a">>>>,
      <<<<"O", "u", "z", "b", "e_acute", "k", "i", "s", "t", "a", "n">>, <<"A", "s", "i", "a">>>>,
      <<<<"P", "a", "k", "i", "s", "t", "a", "n">>, <<"A", "s", "i", "a">>>>,
      <<<<"P", "a", "n", "a", "m", "a">>, <<"N", "o", "r", "t", "h", " ", "A", "m", "e", "r", "i", "c", "a">>>>,
      <<<<"P", "a", "p", "o", "u", "a", "s", "i", "e", "-", "N", "o", "u", "v", "e", "l", "l", "e", "-", "G", "u", "i", "n", "e_acute", "e">>, <<"O", "c", "e", "a", "n", "i", "a">>>>,
      <<<<"P", "a", "r", "a", "g", "u", "a", "y">>, <<"S", "o", "u", "t", "h", " ", "A", "m", "e", "r", "i", "c", "a">>>>,
      <<<<"P", "a", "y", "s", "-", "B", "a", "s">>, <<"E", "u", "r", "o", "p", "e">>>>,
      <<<<"P", "o", "l", "o", "g", "n", "e">>, <<"E", "u", "r", "o", "p", "e">>>>,
      <<<<"P", "o", "l", "y", "n", "e_acute", "s", "i", "e", " ", "f", "r", "a", "n", "c_cedil", "a", "i", "s", "e">>, <<"O", "c", "e", "a", "n", "i", "a">>>>,
      <<<<"P", "o", "r", "t", "o", " ", "R", "i", "c", "o">>, <<"C", "a", "r", "i", "b", "b", "e", "a", "n">>>>,
      <<<<"P", "o", "r", "t", "u", "g", "a", "l">>, <<"E", "u", "r", "o", "p", "e">>>>,
      <<<<"P", "e_acute", "r", "o", "u">>, <<"S", "o", "u", "t", "h", " ", "A", "m", "e", "r", "i", "c", "a">>>>,
      <<<<"Q", "a", "t", "a", "r">>, <<"M", "i", "d", "d", "l", "e", " ", "E", "a", "s", "t">>>>,
      <<<<"R", "o", "u", "m", "a", "n", "i", "e">>, <<"E", "u", "r", "o", "p", "e">>>>,
      <<<<"R", "u", "s", "s", "i", "e">>, <<"E", "u", "r", "o", "p", "e">>>>,
      <<<<"R", "w", "a", "n", "d", "a">>, <<"A", "f", "r", "i", "c", "a">>>>,
      <<<<"R", "e_acute", "p", "u", "b", "l", "i", "q", "u", "e", " ", "c", "e", "n", "t", "r", "a", "f", "r", "i", "c", "a", "i", "n", "e">>, <<"A", "f", "r", "i", "c", "a">>>>,
      <<<<"R", "e_acute", "p", "u", "b", "l", "i", "q", "u", "e", " ", "d", "o", "m", "i", "n", "i", "c", "a", "i", "n", "e">>, <<"C", "a", "r", "i", "b", "b", "e", "a", "n">>>>,
      <<<<"R", "e_acute", "p", "u", "b", "l", "i", "q", "u", "e", " ", "d", "u", " ", "C", "o", "n", "g", "o">>, <<"A", "f", "r", "i", "c", "a">>>>,
      <<<<"R", "e_acute", "p", "u", "b", "l", "i", "q", "u", "e", " ", "d", "e_acute", "m", "o", "c", "r", "a", "t", "i", "q", "u", "e", " ", "d", "u", " ", "C", "o", "n", "g", "o">>, <<"A", "f", "r", "i", "c", "a">>>>,
      <<<<"R", "e_acute", "p", "u", "b", "l", "i", "q", "u", "e", " ", "t", "c", "h", "e_grave", "q", "u", "e">>, <<"E", "u", "r", "o", "p", "e">>>>,
      <<<<"S", "a", "i", "n", "t", "-", "M", "a", "r", "i", "n">>, <<"E", "u", "r", "o", "p", "e">>>>,
      <<<<"S", "a", "i", "n", "t", "-", "V", "i", "n", "c", "e", "n", "t", "-", "e", "t", "-", "l", "e", "s", "-", "G", "r", "e", "n", "a", "d", "i", "n", "e", "s">>, <<"C", "a", "r", "i", "b", "b", "e", "a", "n">>>>,
      <<<<"S", "a", "m", "o", "a">>, <<"O", "c", "e", "a", "n", "i", "a">>>>,
      <<<<"S", "e", "r", "b", "i", "e">>, <<"E", "u", "r", "o", "p", "e">>>>,
      <<<<"S", "e", "y", "c", "h", "e", "l", "l", "e", "s">>, <<"A", "f", "r", "i", "c", "a">>>>,
      <<<<"S", "i", "n", "g", "a", "p", "o", "u", "r">>, <<"A", "s", "i", "a">>>>,
      <<<<"S", "l", "o", "v", "a", "q", "u", "i", "e">>, <<"E", "u", "r", "o", "p", "e">>>>,
      <<<<"S", "l", "o", "v", "e_acute", "n", "i", "e">>, <<"E", "u", "r", "o", "p", "e">>>>,
      <<<<"S", "o", "m", "a", "l", "i", "e">>, <<"A", "f", "r", "i", "c", "a">>>>,
      <<<<"S", "o", "u", "d", "a", "n">>, <<"A", "f", "r", "i", "c", "a">>>>,
      <<<<"S", "r", "i", " ", "L", "a", "n", "k", "a">>, <<"A", "s", "i", "a">>>>,
      <<<<"S", "u", "i", "s", "s", "e">>, <<"E", "u", "r", "o", "p", "e">>>>,
      <<<<"S", "u", "r", "i", "n", "a", "m", "e">>, <<"S", "o", "u", "t", "h", " ", "A", "m", "e", "r", "i", "c", "a">>>>,
      <<<<"S", "u", "e_grave", "d", "e">>, <<"E", "u", "r", "o", "p", "e">>>>,
      <<<<"S", "v", "a", "l", "b", "a", "r", "d", " ", "e", "t", " ", "i", "l", "e", " ", "J", "a", "n", " ", "M", "a", "y", "e", "n">>, <<"E", "u", "r", "o", "p", "e">>>>,
      <<<<"S", "y", "r", "i", "e">>, <<"M", "i", "d", "d", "l", "e", " ", "E", "a", "s", "t">>>>,
      <<<<"S", "e_acute", "n", "e_acute", "g", "a", "l">>, <<"A", "f", "r", "i", "c", "a">>>>,
      <<<<"T", "a", "d", "j", "i", "k", "i", "s", "t", "a", "n">>, <<"A", "s", "i", "a">>>>,
      <<<<"T", "a", "n", "z", "a", "n", "i", "e">>, <<"A", "f", "r", "i", "c", "a">>>>,
      <<<<"T", "a", "i_diaer", "w", "a", "n">>, <<"A", "s", "i", "a">>>>,
      <<<<"T", "e", "r", "r", "i", "t", "o", "i", "r", "e", " ", "b", "r", "i", "t", "a", "n", "n", "i", "q", "u", "e", " ", "d", "e", " ", "l", "'", "o", "c", "e_acute", "a", "n", " ", "I", "n", "d", "i", "e", "n">>, <<"A", "s", "i", "a">>>>,
      <<<<"T", "h", "a", "i_diaer", "l", "a", "n", "d", "e">>, <<"A", "s", "i", "a">>>>,
      <<<<"T", "i", "m", "o", "r", " ", "o", "r", "i", "e", "n", "t", "a", "l">>, <<"A", "s", "i", "a">>>>,
      <<<<"T", "o", "g", "o">>, <<"A", "f", "r", "i", "c", "a">>>>,
      <<<<"T", "o", "n", "g", "a">>, <<"O", "c", "e", "a", "n", "i", "a">>>>,
      <<<<"T", "r", "i", "n", "i", "t", "e_acute", "-", "e", "t", "-", "T", "o", "b", "a", "g", "o">>, <<"C", "a", "r", "i", "b", "b", "e", "a", "n">>>>,
      <<<<"T", "u", "n", "i", "s", "i", "e">>, <<"A", "f", "r", "i", "c", "a">>>>,
      <<<<"T", "u", "r", "k", "m", "e_acute", "n", "i", "s", "t", "a", "n">>, <<"A", "s", "i", "a">>>>,
      <<<<"T", "u", "r", "q", "u", "i", "e">>, <<"M", "i", "d", "d", "l", "e", " ", "E", "a", "s", "t">>>>,
      <<<<"U", "k", "r", "a", "i", "n", "e">>, <<"E", "u", "r", "o", "p", "e">>>>,
      <<<<"U", "r", "u", "g", "u", "a", "y">>, <<"S", "o", "u", "t", "h", " ", "A", "m", "e", "r", "i", "c", "a">>>>,
      <<<<"V", "a", "n", "u", "a", "t", "u">>, <<"O", "c", "e", "a", "n", "i", "a">>>>,
      <<<<"V", "e", "n", "e", "z", "u", "e", "l", "a">>, <<"S", "o", "u", "t", "h", " ", "A", "m", "e", "r", "i", "c", "a">>>>,
      <<<<"V", "i", "e", "t", "n", "a", "m">>, <<"A", "s", "i", "a">>>>,
      <<<<"Y", "e_acute", "m", "e", "n">>, <<"M", "i", "d", "d", "l", "e", " ", "E", "a", "s", "t">>>>,
      <<<<"Z", "a", "m", "b", "i", "e">>, <<"A", "f", "r", "i", "c", "a">>>>,
      <<<<"Z", "i", "m", "b", "a", "b", "w", "e">>, <<"A", "f", "r", "i", "c", "a">>>>,
      <<<<"E_acute", "g", "y", "p", "t", "e">>, <<"A", "f", "r", "i", "c", "a">>>>,
      <<<<"E_acute", "m", "i", "r", "a", "t", "s", " ", "a", "r", "a", "b", "e", "s", " ", "u", "n", "i", "s">>, <<"M", "i", "d", "d", "l", "e", " ", "E", "a", "s", "t">>>>,
      <<<<"E_acute", "q", "u", "a", "t", "e", "u", "r">>, <<"S", "o", "u", "t", "h", " ", "A", "m", "e", "r", "i", "c", "a">>>>,
      <<<<"E_acute", "t", "h", "i", "o", "p", "i", "e">>, <<"A", "f", "r", "i", "c", "a">>>>,
      <<<<"I_circ", "l", "e", " ", "d", "e", " ", "M", "a", "n">>, <<"E", "u", "r", "o", "p", "e">>>>,
      <<<<"I_circ", "l", "e", "s", " ", "C", "a", "i_diaer", "m", "a", "n", "s">>, <<"C", "a", "r", "i", "b", "b", "e", "a", "n">>>>,
      <<<<"I_circ", "l", "e", "s", " ", "C", "o", "c", "o", "s">>, <<"A", "s", "i", "a">>>>,
      <<<<"I_circ", "l", "e", "s", " ", "F", "e_acute", "r", "o", "e_acute">>, <<"E", "u", "r", "o", "p", "e">>>>,
      <<<<"I_circ", "l", "e", "s", " ", "S", "a", "l", "o", "m", "o", "n">>, <<"O", "c", "e", "a", "n", "i", "a">>>>,
      <<<<"I_circ", "l", "e", "s", " ", "T", "u", "r", "q", "u", "e", "s", "-", "e", "t", "-", "C", "a", "i_diaer", "q", "u", "e", "s">>, <<"C", "a", "r", "i", "b", "b", "e", "a", "n">>>>>>

\* pycountry.countries.search_fuzzy(name)[0].alpha_2 for the names the model
\* uses, when pycountry is installed: the English names are found, the French
\* ones are not (LookupError, here the empty text)
SEARCH_FUZZY ==
    <<<<<<"N", "a", "m", "i", "b", "i", "a">>, <<"N", "A">>>>,
      <<<<"M", "o", "r", "o", "c", "c", "o">>, <<"M", "A">>>>>>
search_fuzzy(name) == IF HasKey(SEARCH_FUZZY, name) THEN Get(SEARCH_FUZZY, name) ELSE <<>>
\* translator.translate(country, src="fr", dest="en").text for the names the
\* model uses
TRANSLATIONS ==
    <<<<<<"M", "a", "r", "o", "c">>, <<"M", "o", "r", "o", "c", "c", "o">>>>,
      <<<<"N", "a", "m", "i", "b", "i", "a">>, <<"N", "a", "m", "i", "b", "i", "a">>>>,
      <<<<"N", "a", "m", "i", "b", "i", "e">>, <<"N", "a", "m", "i", "b", "i", "a">>>>,
      <<<<"F", "r", "a", "n", "c", "e">>, <<"F", "r", "a", "n", "c", "e">>>>>>
\* translate_country_to_english: "" without a translator or for an empty name
translate_country_to_english(country, e) ==
    LET c == Strip(country)
    IN  IF c = <<>> \/ ~e.translator THEN <<>>
        ELSE IF HasKey(TRANSLATIONS, c) THEN Strip(Get(TRANSLATIONS, c)) ELSE <<>>

\* guess_iso_code: the manual dictionary, then pycountry on the name, then
\* pycountry on the translated name, else ""
guess_iso_code(country, e) ==
    LET c == Strip(country)
        country_en == translate_country_to_english(c, e)
    IN  IF c = <<>> THEN <<>>
        ELSE IF HasKey(MANUAL_ALPHA2, c) THEN Get(MANUAL_ALPHA2, c)
        ELSE IF e.pycountry /\ search_fuzzy(c) # <<>> THEN search_fuzzy(c)
        ELSE IF e.translator /\ e.pycountry /\ country_en # <<>> /\ search_fuzzy(country_en) # <<>>
             THEN search_fuzzy(country_en)
        ELSE <<>>

\* countries = raw["country"].dropna().astype(str).str.strip().sort_values().unique()
countries(rw) ==
    SortedTexts({Strip(rw[i].country) : i \in {j \in DOMAIN rw : rw[j].country # NoText}})

\* mapping_old = pd.read_csv(DST_MAP, dtype=str).fillna(""), country stripped;
\* a file that does not exist and a file without rows both give no row
mapping_old(file) ==
    [i \in DOMAIN file |->
        [country |-> Strip(ReadCell(file[i].country)),
         country_code |-> ReadCell(file[i].country_code),
         region |-> ReadCell(file[i].region)]]

\* the old rows kept as they are, followed by a row for every country of the
\* dataset, whether the table has it or not
mapping_new_appended(cs, mo) ==
    mo \o [k \in DOMAIN cs |-> [country |-> cs[k], country_code |-> <<>>, region |-> <<>>]]

\* section 3: one row per country of the dataset, with the code and the region
\* of the old table when the country is in its index
mapping_new(cs, mo) ==
    [k \in DOMAIN cs |->
        LET hits == {i \in DOMAIN mo : mo[i].country = cs[k]}
            i0 == CHOOSE i \in hits : TRUE
        IN  [country |-> cs[k],
             country_code |-> IF hits = {} THEN <<>> ELSE mo[i0].country_code,
             region |-> IF hits = {} THEN <<>> ELSE mo[i0].region]]

\* section 3bis: an empty region is filled from MANUAL_REGION, an empty code
\* from guess_iso_code when it finds one
AutoFill(rows, e) ==
    [k \in DOMAIN rows |->
        LET r == rows[k]
            code == guess_iso_code(r.country, e)
        IN  [country |-> r.country,
             country_code |-> IF Strip(r.country_code) = <<>> /\ code # <<>> THEN code
                              ELSE r.country_code,
             region |-> IF Strip(r.region) = <<>> /\ HasKey(MANUAL_REGION, r.country)
                        THEN Get(MANUAL_REGION, r.country) ELSE r.region]]

\* main: the file written for the dataset rw, the file read and the environment e
SyncMapping(rw, file, e) == AutoFill(mapping_new(countries(rw), mapping_old(file)), e)

(***************************************************************************)
(* api.py: the read API over the database airlines_sql. A request is       *)
(* served by one handler; `api` holds the two views of the database and    *)
(* the last request with its response.                                     *)
(***************************************************************************)
\* what get_db_connection() can do: return a connection, raise a pymysql
\* MySQLError (the server refuses or cannot be reached), or raise an exception
\* that is not a MySQLError (PyMySQL raises RuntimeError when the server asks
\* for a sha256 authentication and the cryptography package is absent)
CONNECT_OUTCOMES == {"ok", "MySQLError", "RuntimeError"}
\* what cur.execute() can do
EXECUTE_OUTCOMES == {"ok", "MySQLError"}

\* no request served; airlines: the rows of v_airline_full, each as its cluster;
\* regions: the rows of v_region_modernity, each as its region
NoApi ==
    [endpoint |-> "", connect |-> "", execute |-> "", connections |-> 0,
     status |-> 0, body |-> "", count |-> 0, airlines |-> <<>>, regions |-> <<>>]

\* try: ... except MySQLError: return 500 ... finally: cur.close(); conn.close().
\* When get_db_connection() raises, cur is unbound in the finally clause: the
\* UnboundLocalError of cur.close() is caught by its `except Exception: pass`.
\* An exception that is not a MySQLError leaves the handler and Flask answers
\* 500 with its own Internal Server Error page.
TryQuery(connect, execute, rows) ==
    IF connect = "MySQLError" THEN [status |-> 500, body |-> "database error", count |-> 0]
    ELSE IF connect # "ok" THEN [status |-> 500, body |-> "Internal Server Error", count |-> 0]
    ELSE IF execute = "MySQLError" THEN [status |-> 500, body |-> "database error", count |-> 0]
    ELSE IF execute # "ok" THEN [status |-> 500, body |-> "Internal Server Error", count |-> 0]
    ELSE [status |-> 200, body |-> "rows", count |-> Len(rows)]

\* the state of api after a data endpoint has answered
Served(endpoint, connect, execute, rows) ==
    LET r == TryQuery(connect, execute, rows)
    IN  [api EXCEPT !.endpoint = endpoint, !.connect = connect,
                    !.execute = IF connect = "ok" THEN execute ELSE "",
                    !.connections = 1,
                    !.status = r.status, !.body = r.body, !.count = r.count]

\* ?limit= of /airlines (50 when absent) and <cluster_id> of /clusters
ApiLimits == {1, 50}
ApiClusterIds == {0, 1, 2}
ApiAirlineViews == {<<>>, <<0>>, <<0, 1>>, <<1, 1, 0>>}
ApiRegionViews == {<<>>, <<"Africa">>, <<"Africa", "Asia">>}

(***************************************************************************)
(* Inputs                                                                  *)
(***************************************************************************)
\* the optional columns of AIR3_dataset_v1.xlsx that build_features.py reads
AGG_OPTIONAL == {"new_gen_share", "indice_modernite_v0", "indice_public", "indice_penalise"}
\* the features sheet of air1 as the aggregate AIR3_dataset_v1.xlsx
AggOfAir1(a1) ==
    [present |-> TRUE,
     cols |-> AGG_OPTIONAL,
     rows |-> [i \in DOMAIN a1 |->
                 [airline |-> a1[i].airline, fleet_size |-> a1[i].fleet_size,
                  new_gen_share |-> a1[i].new_gen_share,
                  indice_modernite_v0 |-> a1[i].indice_modernite_v0,
                  indice_public |-> a1[i].indice_public,
                  indice_penalise |-> a1[i].indice_penalise]]]
\* a row of an aggregate written by hand
AggRow(nm, fs) ==
    [airline |-> nm, fleet_size |-> fs, new_gen_share |-> Num(Q(1, 2)),
     indice_modernite_v0 |-> Num(Q(1, 2)), indice_public |-> NA, indice_penalise |-> NA]
\* fleet_size cells of an aggregate that was edited by hand
FleetCells == {NA, Zero, Num(QInt(1)), Num(QInt(6))}
\* the aggregates build_features.py may be given once air1 has run: air1's table,
\* that table with one fleet_size cell replaced, or with one row appended
AggInputs(a1) ==
    LET base == AggOfAir1(a1)
    IN  {base}
        \cup {[base EXCEPT !.rows[i].fleet_size = v] : i \in DOMAIN a1, v \in FleetCells}
        \cup {[base EXCEPT !.rows = Append(@, AggRow(nm, Num(QInt(2))))] : nm \in ExtraNames}

\* all the columns of features_by_airline.csv as build_features.py writes it
FEAT_COLS == {"airline", "fleet_size", "n_models", "diversity", "new_gen_share",
              "indice_modernite_v0", "indice_public", "indice_penalise",
              "n_a220", "n_787", "n_a350", "n_a330neo", "n_neo", "n_max",
              "pct_a220", "pct_787", "pct_a350", "pct_a330neo", "pct_neo", "pct_max",
              "pct_newgen_narrow", "pct_newgen_wide"}

NoTable == [present |-> FALSE, cols |-> {}, rows |-> <<>>]

\* Features files given to air9_compute_scores.py that build_features.py did not
\* write: one row (two for the table-level tests of fleet_size), any cell of the
\* columns air9 reads empty, a text, negative, a proportion or a percentage.
CompCells == {NA, NONNUM, Num(Q(-1, 2)), Zero, Num(Q(1, 2)), One, Num(QInt(30)), Num(QInt(150))}
UnitCells == {NA, Num(Q(1, 2)), Num(QInt(80))}
ScoreFleetCells == {NA, NONNUM, Zero, Num(QInt(3)), Num(QInt(5))}
NModelCells == {NA, NONNUM, Num(QInt(-1)), Zero, Num(QInt(2)), Num(QInt(9))}
GivenRow(nm) ==
    [airline |-> nm, fleet_size |-> Num(QInt(6)), n_models |-> Num(QInt(2)),
     diversity |-> Num(Q(1, 3)), new_gen_share |-> Zero, indice_modernite_v0 |-> Zero,
     indice_public |-> Zero, indice_penalise |-> Zero,
     n_a220 |-> Zero, n_787 |-> Zero, n_a350 |-> Zero, n_a330neo |-> Zero,
     n_neo |-> Zero, n_max |-> Zero,
     pct_a220 |-> Zero, pct_787 |-> Zero, pct_a350 |-> Zero, pct_a330neo |-> Zero,
     pct_neo |-> Zero, pct_max |-> Zero,
     pct_newgen_narrow |-> Num(Q(1, 4)), pct_newgen_wide |-> Num(Q(1, 4))]
GivenTable(cols, rows) == [present |-> TRUE, cols |-> cols, rows |-> rows]
FeatInputs ==
    LET g == GivenRow(<<"A", "f">>)
        h == GivenRow(<<"K", "L", " ">>)
    IN  \* every column present, the three components and fleet_size vary
        {GivenTable(FEAT_COLS, <<[g EXCEPT !.fleet_size = f, !.pct_newgen_narrow = n,
                                           !.pct_newgen_wide = w, !.pct_a220 = a]>>) :
            f \in ScoreFleetCells, n \in CompCells, w \in CompCells, a \in CompCells}
        \* pct_newgen_narrow or pct_newgen_wide (or pct_neo too) absent
        \cup {GivenTable(FEAT_COLS \ gone, <<[g EXCEPT !.fleet_size = Num(QInt(3)), !.pct_neo = n,
                                                     !.pct_787 = w, !.pct_a220 = a]>>) :
            gone \in {{"pct_newgen_narrow", "pct_newgen_wide"}, {"pct_newgen_narrow"},
                      {"pct_newgen_wide"}, {"pct_newgen_wide", "pct_neo"}},
            n \in UnitCells, w \in UnitCells, a \in UnitCells}
        \* pct_a220 absent
        \cup {GivenTable(FEAT_COLS \ {"pct_a220"}, <<[g EXCEPT !.pct_newgen_narrow = n,
                                                            !.pct_a220 = NA]>>) :
            n \in CompCells}
        \* diversity: given, or absent and computed from n_models
        \cup {GivenTable(FEAT_COLS, <<[g EXCEPT !.fleet_size = f, !.diversity = v]>>) :
            f \in {Zero, Num(QInt(5))}, v \in CompCells}
        \cup {GivenTable(FEAT_COLS \ {"diversity"}, <<[g EXCEPT !.fleet_size = f, !.n_models = n]>>) :
            f \in ScoreFleetCells, n \in NModelCells}
        \cup {GivenTable(FEAT_COLS \ {"diversity", "n_models"}, <<g>>)}
        \* fleet_size absent
        \cup {GivenTable(FEAT_COLS \ {"fleet_size"}, <<[g EXCEPT !.fleet_size = NA]>>)}
        \* the file or its column airline absent
        \cup {NoTable, GivenTable(FEAT_COLS \ {"airline"}, <<g>>)}
        \* two rows
        \cup {GivenTable(FEAT_COLS, <<[g EXCEPT !.fleet_size = f1], [r2 EXCEPT !.fleet_size = f2]>>) :
            f1 \in ScoreFleetCells, f2 \in ScoreFleetCells, r2 \in {g, h}}
\* AIR3_dataset_v1.xlsx beside such a file: absent, one row, or two rows of the
\* same airline
Air3Inputs ==
    {NoTable,
     [present |-> TRUE, cols |-> AGG_OPTIONAL, rows |-> <<AggRow(<<"A", "F">>, Num(QInt(7)))>>],
     [present |-> TRUE, cols |-> AGG_OPTIONAL,
      rows |-> <<AggRow(<<"A", "F">>, Num(QInt(7))), AggRow(<<"A", "F">>, Num(QInt(2)))>>]}

\* Inputs of air14_region_summary.py: dataset.xlsx (airline_name, country),
\* airline_scores.csv and country_region_mapping.csv
MaxRegionRaw == 2
RegionRawNames == {<<"T", "A", "R", " ", "M", "E", "X", "I", "C", "O">>, <<"T", "a", "r", " ", "M", "e", "x", "i", "c", "o", " ">>, <<"A", "I", "R", " ", "M", "A", "R", "O", "C">>}
RegionCountries == {<<"E", "s", "p", "a", "g", "n", "e">>, <<"M", "e", "x", "i", "q", "u", "e">>, NoText}
RegionRawRows == [airline_name : RegionRawNames, model : {NoText}, country : RegionCountries]
RegionRawInputs == UNION {[1..n -> RegionRawRows] : n \in 0..MaxRegionRaw}
RegionAirlines == {<<"T", "A", "R", " ", "M", "E", "X", "I", "C", "O">>, <<"A", "I", "R", " ", "M", "A", "R", "O", "C">>, <<"K", "L", "M">>}
RegionScoreRows ==
    {[airline |-> a, fleet_size |-> Num(QInt(6)), diversity |-> Half, modernity_index |-> Half,
      version_v1 |-> V1, qa_notes |-> <<>>] : a \in RegionAirlines}
\* score tables of one and of two rows
RegionScoreInputs ==
    {<<a>> : a \in RegionScoreRows} \cup {<<a, b>> : a \in RegionScoreRows, b \in RegionScoreRows}
MappingInputs ==
    {<<[country |-> <<"M", "e", "x", "i", "q", "u", "e">>, region |-> <<"N", "o", "r", "t", "h", " ", "A", "m", "e", "r", "i", "c", "a">>],
       [country |-> <<"E", "s", "p", "a", "g", "n", "e">>, region |-> <<"E", "u", "r", "o", "p", "e">>]>>,
     <<[country |-> <<"M", "e", "x", "i", "c", "o">>, region |-> <<"N", "o", "r", "t", "h", " ", "A", "m", "e", "r", "i", "c", "a">>],
       [country |-> <<"M", "e", "x", "i", "q", "u", "e">>, region |-> <<"N", "o", "r", "t", "h", " ", "A", "m", "e", "r", "i", "c", "a">>],
       [country |-> <<"E", "s", "p", "a", "g", "n", "e">>, region |-> <<"E", "u", "r", "o", "p", "e">>]>>,
     <<[country |-> <<"M", "a", "r", "o", "c">>, region |-> <<"A", "f", "r", "i", "c", "a">>],
       [country |-> <<"E", "s", "p", "a", "g", "n", "e">>, region |-> <<"E", "u", "r", "o", "p", "e">>]>>}

\* Score tables for the aggregation: four airlines of the manual table that are
\* in Mexique, one the name heuristic resolves, one of the manual table whose
\* country (Oman) the mapping does not have, and one that nothing resolves; the
\* index of the first five varies and may be empty
TopAirlines ==
    <<<<"T", "A", "R", " ", "M", "E", "X", "I", "C", "O">>,
      <<"M", "E", "X", "I", "C", "O", " ", "-", " ", "N", "A", "V", "Y">>,
      <<"S", "E", "R", "V", "I", "C", "I", "O", "S", " ", "A", "A", "R", "E", "O", "S", " ", "I", "L", "S", "A">>,
      <<"T", "R", "A", "N", "S", "P", "O", "R", "T", "E", "S", " ", "A", "A", "R", "E", "O", "S", " ", "P", "E", "G", "A", "S", "O">>,
      <<"A", "I", "R", " ", "M", "A", "R", "O", "C">>,
      <<"S", "A", "L", "A", "M", "A", "I", "R">>,
      <<"K", "L", "M">>>>
IndexCells == {NA, Num(Q(3, 10)), Half}
TopScoreRow(a, x) ==
    [airline |-> a, fleet_size |-> Num(QInt(6)), diversity |-> Half, modernity_index |-> x,
     version_v1 |-> V1, qa_notes |-> <<>>]
TopScoreInputs ==
    {[i \in DOMAIN TopAirlines |-> TopScoreRow(TopAirlines[i], IF i <= 5 THEN x[i] ELSE Num(Q(9, 10)))] :
        x \in [1..5 -> IndexCells]}
TopRaw == <<[airline_name |-> <<"T", "A", "R", " ", "M", "E", "X", "I", "C", "O">>, model |-> NoText, country |-> <<"M", "e", "x", "i", "q", "u", "e">>]>>
TopMapping ==
    <<[country |-> <<"M", "e", "x", "i", "q", "u", "e">>, region |-> <<"N", "o", "r", "t", "h", " ", "A", "m", "e", "r", "i", "c", "a">>],
      [country |-> <<"R", "o", "y", "a", "u", "m", "e", " ", "d", "u", " ", "M", "a", "r", "o", "c">>, region |-> <<"A", "f", "r", "i", "c", "a">>]>>
\* datasets of three rows of one airline, for the counts of the direct join
DirectRawInputs ==
    {[i \in 1..3 |-> [airline_name |-> <<"T", "A", "R", " ", "M", "E", "X", "I", "C", "O">>, model |-> NoText, country |-> c[i]]] :
        c \in [1..3 -> RegionCountries]}
DirectScores == <<TopScoreRow(<<"T", "A", "R", " ", "M", "E", "X", "I", "C", "O">>, Half)>>
\* the environment of air13_build_country_mapping.py: whether pycountry and
\* googletrans can be imported
NoEnv == [pycountry |-> FALSE, translator |-> FALSE]

\* The run of air13: datasets of up to two rows, of which the country alone is
\* read, a mapping file of up to two rows of distinct countries that a curator
\* may have filled in, and the libraries that can be imported
SyncCountries == {<<"F", "r", "a", "n", "c", "e">>, <<"N", "a", "m", "i", "b", "i", "e">>, <<"N", "a", "m", "i", "b", "i", "a">>, <<"M", "a", "r", "o", "c">>, NoText}
SyncRawRow(c) == [airline_name |-> <<"A", "f">>, model |-> NoText, country |-> c]
SyncRawInputs ==
    {<<>>} \cup {<<SyncRawRow(c)>> : c \in SyncCountries}
           \cup {<<SyncRawRow(c), SyncRawRow(e)>> : c \in SyncCountries, e \in SyncCountries}
SyncFileRows ==
    [country : SyncCountries \ {NoText},
     country_code : {<<>>, <<"N", "A">>, <<"M", "A">>},
     region : {<<>>, <<"A", "f", "r", "i", "c", "a">>}]
SyncFileInputs ==
    {<<>>} \cup {<<r>> : r \in SyncFileRows}
           \cup {p \in SyncFileRows \X SyncFileRows : p[1].country # p[2].country}
EnvInputs == [pycountry : BOOLEAN, translator : BOOLEAN]

(***************************************************************************)
(* The run: the scripts in pipeline order from a raw dataset,               *)
(* air9_compute_scores.py alone on a given features file, or                *)
(* air14_region_summary.py on a given score table, or                       *)
(* air13_build_country_mapping.py, twice, on a given mapping file.          *)
(***************************************************************************)
InitPipeline ==
    /\ stage = "air1"
    /\ raw \in RawInputs
    /\ agg = NoTable
    /\ air1 = <<>>
    /\ feat = NoTable
    /\ frame = <<>>
    /\ scores = <<>>
    /\ mapping = <<>>
    /\ merged = <<>>
    /\ missing = <<>>
    /\ summary = <<>>
    /\ env = NoEnv
    /\ api = NoApi

\* the pipeline on a dataset of ClassifierInputs
InitClassifier ==
    /\ stage = "air1"
    /\ raw \in ClassifierInputs
    /\ agg = NoTable
    /\ air1 = <<>>
    /\ feat = NoTable
    /\ frame = <<>>
    /\ scores = <<>>
    /\ mapping = <<>>
    /\ merged = <<>>
    /\ missing = <<>>
    /\ summary = <<>>
    /\ env = NoEnv
    /\ api = NoApi

InitScores ==
    /\ stage = "air9"
    /\ raw = <<>>
    /\ agg \in Air3Inputs
    /\ air1 = <<>>
    /\ feat \in FeatInputs
    /\ frame = <<>>
    /\ scores = <<>>
    /\ mapping = <<>>
    /\ merged = <<>>
    /\ missing = <<>>
    /\ summary = <<>>
    /\ env = NoEnv
    /\ api = NoApi

InitRegion ==
    /\ stage = "air14"
    /\ raw \in RegionRawInputs
    /\ agg = NoTable
    /\ air1 = <<>>
    /\ feat = NoTable
    /\ frame = <<>>
    /\ scores \in RegionScoreInputs
    /\ mapping \in MappingInputs
    /\ merged = <<>>
    /\ missing = <<>>
    /\ summary = <<>>
    /\ env = NoEnv
    /\ api = NoApi

InitRegionTop ==
    /\ stage = "air14"
    /\ raw = TopRaw
    /\ agg = NoTable
    /\ air1 = <<>>
    /\ feat = NoTable
    /\ frame = <<>>
    /\ scores \in TopScoreInputs
    /\ mapping = TopMapping
    /\ merged = <<>>
    /\ missing = <<>>
    /\ summary = <<>>
    /\ env = NoEnv
    /\ api = NoApi

InitRegionDirect ==
    /\ stage = "air14"
    /\ raw \in DirectRawInputs
    /\ agg = NoTable
    /\ air1 = <<>>
    /\ feat = NoTable
    /\ frame = <<>>
    /\ scores = DirectScores
    /\ mapping \in MappingInputs
    /\ merged = <<>>
    /\ missing = <<>>
    /\ summary = <<>>
    /\ env = NoEnv
    /\ api = NoApi

InitMapping ==
    /\ stage = "air13"
    /\ raw \in SyncRawInputs
    /\ agg = NoTable
    /\ air1 = <<>>
    /\ feat = NoTable
    /\ frame = <<>>
    /\ scores = <<>>
    /\ mapping \in SyncFileInputs
    /\ merged = <<>>
    /\ missing = <<>>
    /\ summary = <<>>
    /\ env \in EnvInputs
    /\ api = NoApi

\* the API in front of a database
InitApi ==
    /\ stage = "api"
    /\ raw = <<>>
    /\ agg = NoTable
    /\ air1 = <<>>
    /\ feat = NoTable
    /\ frame = <<>>
    /\ scores = <<>>
    /\ mapping = <<>>
    /\ merged = <<>>
    /\ missing = <<>>
    /\ summary = <<>>
    /\ env = NoEnv
    /\ \E a \in ApiAirlineViews, g \in ApiRegionViews :
            api = [NoApi EXCEPT !.airlines = a, !.regions = g]

Init ==
    \/ InitPipeline \/ InitClassifier \/ InitScores \/ InitRegion \/ InitRegionTop
    \/ InitRegionDirect \/ InitMapping \/ InitApi

\* air1_generate_features.py main
Air1Main ==
    /\ stage = "air1"
    /\ air1' = Air1Agg(raw)
    /\ stage' = "air5"
    /\ UNCHANGED <<raw, agg, feat, frame, scores, mapping, merged, missing, summary, env, api>>

\* (num / den).astype(float) of ratio is given a pd.NA once den.replace(0, pd.NA)
\* has replaced a zero; whether astype(float) accepts it depends on the pandas build
ZeroFleet(a) ==
    \E i \in DOMAIN a.rows : IsNum(a.rows[i].fleet_size) /\ a.rows[i].fleet_size.n = 0

\* build_features.py, on the aggregate a and the raw rows
BuildFeaturesRun ==
    /\ stage = "air5"
    /\ \E a \in AggInputs(air1) :
        /\ agg' = a
        /\ \/ /\ feat' = [present |-> TRUE, cols |-> FEAT_COLS, rows |-> BuildFeatures(a, raw)]
              /\ stage' = "air9"
           \/ /\ ZeroFleet(a)
              /\ feat' = feat
              /\ stage' = "air5_failed"
    /\ UNCHANGED <<raw, air1, frame, scores, mapping, merged, missing, summary, env, api>>

\* air9_compute_scores.py, on features_by_airline.csv and (if it exists) AIR3
ComputeScores ==
    /\ stage = "air9"
    /\ IF Air9Fails(feat)
       THEN /\ stage' = "air9_failed"
            /\ UNCHANGED <<frame, scores>>
       ELSE /\ frame' = ScoreFrame(feat, agg)
            /\ scores' = ExportScores(frame')
            /\ stage' = "air9_done"
    /\ UNCHANGED <<raw, agg, air1, feat, mapping, merged, missing, summary, env, api>>

\* air14_region_summary.py, section 3: airline -> country through the dataset
RegionDirectJoin ==
    /\ stage = "air14"
    /\ merged' = MergeCountry(scores, airline_country(raw))
    /\ stage' = "air14_manual"
    /\ UNCHANGED <<raw, agg, air1, feat, frame, scores, mapping, missing, summary, env, api>>

\* section 4: the manual table
RegionManualOverride ==
    /\ stage = "air14_manual"
    /\ merged' = ManualOverride(merged)
    /\ stage' = "air14_guess"
    /\ UNCHANGED <<raw, agg, air1, feat, frame, scores, mapping, missing, summary, env, api>>

\* section 5: the heuristic on the name, with the tokens of the mapping
RegionNameHeuristic ==
    /\ stage = "air14_guess"
    /\ merged' = NameHeuristic(merged, build_country_token_table(WithExtraRows(mapping)))
    /\ stage' = "air14_region"
    /\ UNCHANGED <<raw, agg, air1, feat, frame, scores, mapping, missing, summary, env, api>>

\* section 6: country -> region through the mapping
RegionJoin ==
    /\ stage = "air14_region"
    /\ merged' = MergeRegion(merged, WithExtraRows(mapping))
    /\ stage' = "air14_filter"
    /\ UNCHANGED <<raw, agg, air1, feat, frame, scores, mapping, missing, summary, env, api>>

\* air14_missing_region.csv is written, then section 7 filters the table and
\* the script stops if no row is left
RegionFilter ==
    /\ stage = "air14_filter"
    /\ missing' = MissingRegion(merged)
    /\ merged' = FinalFilter(merged)
    /\ stage' = IF merged' = <<>> THEN "air14_failed" ELSE "air14_summary"
    /\ UNCHANGED <<raw, agg, air1, feat, frame, scores, mapping, summary, env, api>>

\* sections 8 and 9: region_summary.csv
RegionSummary ==
    /\ stage = "air14_summary"
    /\ summary' \in Summaries(merged)
    /\ stage' = "air14_done"
    /\ UNCHANGED <<raw, agg, air1, feat, frame, scores, mapping, merged, missing, env, api>>

\* air13_build_country_mapping.py main, run once and then once more on the
\* file it wrote
Air13Main ==
    /\ stage \in {"air13", "air13_done"}
    /\ mapping' = SyncMapping(raw, mapping, env)
    /\ stage' = IF stage = "air13" THEN "air13_done" ELSE "air13_twice"
    /\ UNCHANGED <<raw, agg, air1, feat, frame, scores, merged, missing, summary, env, api>>

\* GET /health
healthcheck ==
    /\ stage = "api"
    /\ api' = [api EXCEPT !.endpoint = "/health", !.connect = "", !.execute = "",
                          !.connections = 0, !.status = 200, !.body = "ok", !.count = 0]
    /\ UNCHANGED <<stage, raw, agg, air1, feat, frame, scores, mapping, merged, missing, summary, env>>

\* GET /airlines?limit=
list_airlines ==
    /\ stage = "api"
    /\ \E limit \in ApiLimits, c \in CONNECT_OUTCOMES, e \in EXECUTE_OUTCOMES :
        LET n == IF limit < Len(api.airlines) THEN limit ELSE Len(api.airlines)
        IN  api' = Served("/airlines", c, e, SubSeq(api.airlines, 1, n))
    /\ UNCHANGED <<stage, raw, agg, air1, feat, frame, scores, mapping, merged, missing, summary, env>>

\* GET /clusters/<cluster_id>
airlines_by_cluster ==
    /\ stage = "api"
    /\ \E cluster_id \in ApiClusterIds, c \in CONNECT_OUTCOMES, e \in EXECUTE_OUTCOMES :
        api' = Served("/clusters", c, e,
                      KeepIdx(api.airlines, {i \in DOMAIN api.airlines : api.airlines[i] = cluster_id}))
    /\ UNCHANGED <<stage, raw, agg, air1, feat, frame, scores, mapping, merged, missing, summary, env>>

\* GET /regions/summary
regions_summary ==
    /\ stage = "api"
    /\ \E c \in CONNECT_OUTCOMES, e \in EXECUTE_OUTCOMES :
        api' = Served("/regions/summary", c, e, api.regions)
    /\ UNCHANGED <<stage, raw, agg, air1, feat, frame, scores, mapping, merged, missing, summary, env>>

Next ==
    \/ healthcheck
    \/ list_airlines
    \/ airlines_by_cluster
    \/ regions_summary
    \/ Air1Main
    \/ Air13Main
    \/ BuildFeaturesRun
    \/ ComputeScores
    \/ RegionDirectJoin
    \/ RegionManualOverride
    \/ RegionNameHeuristic
    \/ RegionJoin
    \/ RegionFilter
    \/ RegionSummary

Spec == Init /\ [][Next]_vars

(***************************************************************************)
(* Properties                                                              *)
(***************************************************************************)
\* the features file was written by build_features.py in this run
FeatBuilt == raw # <<>> /\ feat.present
\* the feature row a row of the frame comes from
FeatOf(r) == feat.rows[r.src]
\* pct_newgen_narrow and pct_newgen_wide are read, not rebuilt
Direct == {"pct_newgen_narrow", "pct_newgen_wide"} \subseteq feat.cols
Five == Num(QInt(MIN_FLEET))
Proportion(c) == IsNum(c) /\ In01(c)

\* C1: in every row of the scorer's frame, modernity_index is
\* (4*narrow + 4*wide + 2*a220) / 10 brought back into [0,1], on the three
\* components as the scorer holds them; a component read from a cell that is
\* empty or not a number is 0, one read from a proportion is that proportion,
\* and the weights stay 4/10, 4/10, 2/10 whichever components are 0. The
\* exported modernity_index is that value.
C1_ModernityIndex ==
    \A i \in DOMAIN frame :
        LET r == frame[i]
            in == FeatOf(r)
            N == r.pct_newgen_narrow
            W == r.pct_newgen_wide
            A == r.pct_a220
            x == Q(4 * N.n * W.d * A.d + 4 * W.n * N.d * A.d + 2 * A.n * N.d * W.d,
                   10 * N.d * W.d * A.d)
            clamped == IF x.n < 0 THEN QZero ELSE IF x.n > x.d THEN QOne ELSE x
            Read(cell, comp) == /\ ~IsNum(cell) => comp = Zero
                                /\ Proportion(cell) => comp = cell
        IN  /\ IsNum(N) /\ IsNum(W) /\ IsNum(A)
            /\ r.modernity_index = Num(clamped)
            /\ scores[i].modernity_index = r.modernity_index
            /\ Direct => Read(in.pct_newgen_narrow, N) /\ Read(in.pct_newgen_wide, W)
            /\ "pct_a220" \in feat.cols => Read(in.pct_a220, A)
            /\ "pct_a220" \notin feat.cols => A = Zero
\* a row whose pct_newgen_narrow is empty, with wide = 1 and a220 = 1/2: the
\* index is 4/10 + 1/10 (a renormalised one would be 5/6)
C1_Witness ==
    \E i \in DOMAIN frame :
        /\ Direct /\ "pct_a220" \in feat.cols
        /\ IsNa(FeatOf(frame[i]).pct_newgen_narrow)
        /\ FeatOf(frame[i]).pct_newgen_wide = One
        /\ FeatOf(frame[i]).pct_a220 = Half
        /\ scores[i].modernity_index = Half

\* C2: in the table of air1_generate_features.py and in the features table of
\* build_features.py, indice_public is null for every airline whose fleet_size
\* is below MIN_FLEET, and is the raw index for the others.
C2_PublicIndexSuppressed ==
    /\ \A i \in DOMAIN air1 :
        LET r == air1[i]
        IN  IF CLt(r.fleet_size, Five) THEN IsNa(r.indice_public)
            ELSE r.indice_public = r.indice_modernite_v0
    /\ FeatBuilt =>
        \A i \in DOMAIN feat.rows :
            LET r == feat.rows[i]
            IN  IF CLt(r.fleet_size, Five) THEN IsNa(r.indice_public)
                ELSE r.indice_public = r.indice_modernite_v0

\* C3: in both tables, indice_penalise is the raw index times
\* min(1, fleet_size / MIN_FLEET).
C3_PenalisedIndexScaled ==
    LET Scaled(r) ==
            r.indice_penalise =
                CMul(r.indice_modernite_v0, Num(QMin(QOne, QDiv(r.fleet_size, QInt(MIN_FLEET)))))
    IN  /\ \A i \in DOMAIN air1 : Scaled(air1[i])
        /\ FeatBuilt => \A i \in DOMAIN feat.rows : Scaled(feat.rows[i])

\* C4: a row of the score table whose fleet_size is below MIN_FLEET and whose
\* feature row has an empty pct_newgen_narrow, pct_newgen_wide or pct_a220 has
\* both notes in qa_notes, joined by ";" with no empty segment.
C4_BothNotes ==
    \A i \in DOMAIN frame :
        LET in == FeatOf(frame[i])
            qa == scores[i].qa_notes
            lacks == \/ Direct /\ (IsNa(in.pct_newgen_narrow) \/ IsNa(in.pct_newgen_wide))
                     \/ "pct_a220" \in feat.cols /\ IsNa(in.pct_a220)
            segs == SplitOn(qa, ";", <<>>)
        IN  (CLt(scores[i].fleet_size, Five) /\ lacks) =>
                /\ Contains(qa, FLEET_TOO_SMALL)
                /\ Contains(qa, MISSING_COMPONENT)
                /\ \A k \in DOMAIN segs : segs[k] # <<>>

\* C5: in the score table fleet_size is a number (0 when the cell was empty or
\* not a number), qa_notes contains "fleet_too_small" exactly when that number
\* is below MIN_FLEET, qa_notes is never null, and it is the empty string when
\* the fleet is large enough.
C5_FleetTooSmall ==
    \A i \in DOMAIN frame :
        LET s == scores[i]
            in == FeatOf(frame[i])
        IN  /\ IsNum(s.fleet_size)
            /\ ("fleet_size" \in feat.cols /\ ~IsNum(in.fleet_size)) => s.fleet_size = Zero
            /\ Contains(s.qa_notes, FLEET_TOO_SMALL) <=> QLt(s.fleet_size, QInt(MIN_FLEET))
            /\ s.qa_notes # NoText
            /\ ~QLt(s.fleet_size, QInt(MIN_FLEET)) => s.qa_notes = <<>>
\* a table with a row of empty fleet_size, flagged, and a row of fleet 5, with
\* the empty string
C5_Witness ==
    /\ Len(frame) = 2
    /\ IsNa(FeatOf(frame[1]).fleet_size) /\ scores[1].fleet_size = Zero
    /\ scores[1].qa_notes = FLEET_TOO_SMALL
    /\ scores[2].fleet_size = Five /\ scores[2].qa_notes = <<>>

\* C6: in the features table of build_features.py, each family count of an
\* airline is the number of distinct models of that airline in the family,
\* n_models the number of its distinct models, and (on the aggregate of air1)
\* fleet_size the number of its raw rows and pct_neo = n_neo / fleet_size; for
\* the raw rows (Af, A320neo), (Af, A320neo), (Af, A321) the row of AF has
\* fleet_size 3, n_models 2, n_neo 1 and pct_neo 1/3. (fleet_size is compared
\* where the two scripts give the raw names the same key.)
\* air1 and build_features.py give every raw name the same key
KeysAgree == \A j \in DOMAIN raw : Air1Name[raw[j].airline_name] = NormName[raw[j].airline_name]
C6_Example ==
    <<[airline_name |-> <<"A", "f">>, model |-> <<"A", "3", "2", "0", "n", "e", "o">>, country |-> NoText],
      [airline_name |-> <<"A", "f">>, model |-> <<"A", "3", "2", "0", "n", "e", "o">>, country |-> NoText],
      [airline_name |-> <<"A", "f">>, model |-> <<"A", "3", "2", "1">>, country |-> NoText]>>
C6_FamilyCounts ==
    FeatBuilt =>
        /\ \A i \in DOMAIN feat.rows :
            LET r == feat.rows[i]
                mine == {j \in DOMAIN raw : NormName[raw[j].airline_name] = NormName[r.airline]}
                models == {raw[j].model : j \in mine} \ {NoText}
                n(fam) == Cardinality({m \in models : Tags[m][fam]})
            IN  /\ r.n_models = Num(QInt(Cardinality(models)))
                /\ r.n_a220 = Num(QInt(n("is_a220")))
                /\ r.n_787 = Num(QInt(n("is_787")))
                /\ r.n_a350 = Num(QInt(n("is_a350")))
                /\ r.n_a330neo = Num(QInt(n("is_a330neo")))
                /\ r.n_neo = Num(QInt(n("is_neo")))
                /\ r.n_max = Num(QInt(n("is_max")))
                /\ (agg = AggOfAir1(air1) /\ KeysAgree) =>
                    /\ r.fleet_size = Num(QInt(Cardinality(mine)))
                    /\ r.pct_neo = Num(Q(n("is_neo"), Cardinality(mine)))
        /\ (raw = C6_Example /\ agg = AggOfAir1(air1)) =>
            /\ Len(feat.rows) = 1
            /\ feat.rows[1].airline = <<"A", "F">>
            /\ feat.rows[1].fleet_size = Num(QInt(3))
            /\ feat.rows[1].n_models = Num(QInt(2))
            /\ feat.rows[1].n_neo = Num(QInt(1))
            /\ feat.rows[1].pct_neo = Num(Q(1, 3))
C6_Witness ==
    /\ FeatBuilt /\ raw = C6_Example /\ agg = AggOfAir1(air1)
    /\ air1[1].fleet_size = Num(QInt(3))
    /\ feat.rows[1].n_neo = Num(QInt(1))

\* C7: once build_features.py has run on an aggregate, there is a features
\* table, and each of its rows whose fleet_size is 0 (the aggregate's was 0 or
\* empty) has diversity and the eight pct_* equal to 0; the diversity the scorer
\* computes for a fleet_size of 0 is 0 too.
C7_ZeroFleet ==
    /\ (raw # <<>> /\ agg.present) =>
        /\ feat.present
        /\ \A i \in DOMAIN feat.rows :
            LET r == feat.rows[i]
            IN  r.fleet_size = Zero =>
                    /\ r.diversity = Zero
                    /\ r.pct_a220 = Zero /\ r.pct_787 = Zero /\ r.pct_a350 = Zero
                    /\ r.pct_a330neo = Zero /\ r.pct_neo = Zero /\ r.pct_max = Zero
                    /\ r.pct_newgen_narrow = Zero /\ r.pct_newgen_wide = Zero
    /\ \A i \in DOMAIN frame :
        ("diversity" \notin feat.cols /\ frame[i].fleet_size = Zero) => frame[i].diversity = Zero

\* C8: diversity, the six pct_* of the families, pct_newgen_narrow and
\* pct_newgen_wide of every row of the features table of build_features.py are
\* numbers of [0,1], and so is diversity in every row of the score table.
C8_Proportions ==
    /\ FeatBuilt =>
        \A i \in DOMAIN feat.rows :
            LET r == feat.rows[i]
            IN  /\ Proportion(r.diversity)
                /\ Proportion(r.pct_a220) /\ Proportion(r.pct_787) /\ Proportion(r.pct_a350)
                /\ Proportion(r.pct_a330neo) /\ Proportion(r.pct_neo) /\ Proportion(r.pct_max)
                /\ Proportion(r.pct_newgen_narrow) /\ Proportion(r.pct_newgen_wide)
    /\ \A i \in DOMAIN frame : Proportion(scores[i].diversity)
\* a row with more distinct models than aircraft: diversity and pct_newgen_narrow
\* are held at 1
C8_Witness ==
    /\ FeatBuilt /\ stage = "air9_done"
    /\ \E i \in DOMAIN feat.rows :
        LET r == feat.rows[i]
        IN  /\ QLt(QZero, r.fleet_size) /\ QLt(r.fleet_size, r.n_models)
            /\ QLt(r.fleet_size, QAdd(r.n_neo, r.n_a220))
            /\ r.diversity = One /\ r.pct_newgen_narrow = One
            /\ \E j \in DOMAIN frame : scores[j].airline = r.airline /\ scores[j].diversity = One

\* C9: modernity_index is a number of [0,1] in every row of the score table.
C9_IndexInRange ==
    \A i \in DOMAIN frame : Proportion(scores[i].modernity_index)
\* a row scored from a percentage above 100, a negative value and a text
C9_Witness ==
    \E i \in DOMAIN frame :
        LET in == FeatOf(frame[i])
        IN  /\ Direct /\ "pct_a220" \in feat.cols
            /\ in.pct_newgen_narrow = Num(QInt(150))
            /\ in.pct_newgen_wide = Num(Q(-1, 2))
            /\ in.pct_a220 = NONNUM
            /\ scores[i].modernity_index = Num(Q(4, 10))

\* C10: the resolver runs the direct join, then the manual table, then the
\* name heuristic; the manual table and the heuristic keep the table's rows and
\* every country already there, and give a row without a country the manual
\* table's (resp. the heuristic's) answer; so at the end a row the dataset
\* resolves has the dataset's country, and a row it does not resolve whose
\* airline is in the manual table has the manual table's country, whatever
\* the heuristic would answer for its name.
TokenTable == build_country_token_table(WithExtraRows(mapping))
C10_StagesInOrder ==
    [][/\ stage = "air14" => stage' = "air14_manual"
       /\ stage = "air14_manual" =>
            /\ stage' = "air14_guess"
            /\ Len(merged') = Len(merged)
            /\ \A i \in DOMAIN merged :
                merged'[i].country =
                    IF merged[i].country # NoText THEN merged[i].country
                    ELSE get_manual_country(merged[i].airline)
       /\ stage = "air14_guess" =>
            /\ stage' = "air14_region"
            /\ Len(merged') = Len(merged)
            /\ \A i \in DOMAIN merged :
                merged'[i].country =
                    IF merged[i].country # NoText THEN merged[i].country
                    ELSE guess_country_from_name(merged[i].airline, TokenTable)
       /\ stage' = "air14_region" =>
            \A i \in DOMAIN merged' :
                LET r == merged'[i]
                    direct == {raw[k].country : k \in {j \in DOMAIN raw :
                                  /\ raw[j].country # NoText
                                  /\ Strip(Upper(raw[j].airline_name)) = Strip(Upper(r.airline))}}
                IN  /\ direct # {} => r.country \in direct
                    /\ (direct = {} /\ get_manual_country(r.airline) # NoText) =>
                            r.country = get_manual_country(r.airline)
      ]_vars
\* the resolver has finished; TAR MEXICO, absent from the dataset, has the
\* manual table's Mexique although the heuristic answers Mexico for its name,
\* and AIR MAROC has the dataset's Espagne although the heuristic answers Maroc
C10_Witness ==
    /\ stage = "air14_region"
    /\ \E i \in DOMAIN merged :
        /\ merged[i].airline = <<"T", "A", "R", " ", "M", "E", "X", "I", "C", "O">>
        /\ merged[i].country = <<"M", "e", "x", "i", "q", "u", "e">>
        /\ guess_country_from_name(merged[i].airline, TokenTable) = <<"M", "e", "x", "i", "c", "o">>
    /\ \E j \in DOMAIN merged :
        /\ merged[j].airline = <<"A", "I", "R", " ", "M", "A", "R", "O", "C">>
        /\ merged[j].country = <<"E", "s", "p", "a", "g", "n", "e">>
        /\ guess_country_from_name(merged[j].airline, TokenTable) = <<"M", "a", "r", "o", "c">>

\* a country that has a region in the mapping, extra rows included
HasRegion(c) ==
    /\ c # NoText
    /\ \E j \in DOMAIN WithExtraRows(mapping) :
          /\ normalize_str(WithExtraRows(mapping)[j].country) = normalize_str(c)
          /\ WithExtraRows(mapping)[j].region # NoText
TopNames(s) == {s.top_airlines[k].airline : k \in DOMAIN s.top_airlines}
NamesIn(m, reg) == {m[i].airline : i \in {j \in DOMAIN m : m[j].region = reg}}
\* C11: an airline left without a country by the three stages, or whose country
\* has no region in the mapping (extra rows included), gets no region: the
\* filter removes its row and writes it to air14_missing_region.csv, and every
\* row of region_summary.csv counts, averages and lists only rows that passed
\* the filter with that region.
C11_UnresolvedExcluded ==
    [][/\ stage = "air14_filter" =>
            \A i \in DOMAIN merged :
                ~HasRegion(merged[i].country) =>
                    /\ merged[i].region = NoText
                    /\ \E k \in DOMAIN missing' :
                          /\ missing'[k].airline = merged[i].airline
                          /\ missing'[k].country = merged[i].country
                    /\ \A j \in DOMAIN merged' : merged'[j] # merged[i]
       /\ stage' = "air14_done" =>
            \A k \in DOMAIN summary' :
                /\ summary'[k].region # NoText
                /\ summary'[k].n_airlines = Cardinality(NamesIn(merged, summary'[k].region))
                /\ TopNames(summary'[k]) \subseteq NamesIn(merged, summary'[k].region)
                /\ \A a \in {missing[i].airline : i \in DOMAIN missing} :
                      a \notin NamesIn(merged, summary'[k].region) => a \notin TopNames(summary'[k])
      ]_vars
\* a summary was written while one airline had no country and another a country
\* without region
C11_Witness ==
    /\ stage = "air14_done"
    /\ summary # <<>>
    /\ \E i \in DOMAIN missing : missing[i].country = NoText
    /\ \E i \in DOMAIN missing : missing[i].country # NoText

\* a row the aggregation takes: it has a region and a modernity_index
Included(r) == r.region # NoText /\ IsNum(r.modernity_index)
RowsIn(m, reg) == {i \in DOMAIN m : m[i].region = reg}
RECURSIVE SumIndex(_, _)
SumIndex(m, K) ==
    IF K = {} THEN QZero
    ELSE LET i == CHOOSE j \in K : TRUE
         IN  QAdd(m[i].modernity_index, SumIndex(m, K \ {i}))
RankIn(g, i) ==
    1 + Cardinality({j \in DOMAIN g :
            \/ QLt(g[i].modernity_index, g[j].modernity_index)
            \/ (g[j].modernity_index = g[i].modernity_index /\ j < i)})
TopLen(g) == IF Len(g) < TOP_N THEN Len(g) ELSE TOP_N
\* top_airlines has min(3, rows of the region) entries in decreasing order of
\* index, and no row of the region has a higher index than a listed one
\* unless it is listed too
TopDescendingHead ==
    stage = "air14_done" =>
        \A k \in DOMAIN summary :
            LET g == RegionGroup(merged, summary[k].region)
                top == summary[k].top_airlines
            IN  /\ Len(top) = TopLen(g)
                /\ \A a, b \in DOMAIN top :
                      a < b => ~QLt(top[a].modernity_index, top[b].modernity_index)
                /\ \E f \in [DOMAIN top -> DOMAIN g] :
                      /\ \A a, b \in DOMAIN top : a # b => f[a] # f[b]
                      /\ \A a \in DOMAIN top :
                            /\ top[a].airline = g[f[a]].airline
                            /\ top[a].modernity_index = Round3(g[f[a]].modernity_index)
                      /\ \A i \in DOMAIN g :
                            (\A a \in DOMAIN top : f[a] # i) =>
                                \A a \in DOMAIN top :
                                    ~QLt(g[f[a]].modernity_index, g[i].modernity_index)
\* C13: for every region, top_airlines lists min(3, rows of the region) airlines
\* in decreasing order of modernity_index, none of them below an airline that is
\* not listed, and airlines of equal index in the order of their rows in the
\* score table.
C13_TopAirlines ==
    stage = "air14_done" =>
        \A k \in DOMAIN summary :
            LET g == RegionGroup(merged, summary[k].region)
                top == summary[k].top_airlines
            IN  /\ Len(top) = TopLen(g)
                /\ \A i \in DOMAIN g :
                      RankIn(g, i) <= Len(top) =>
                          /\ top[RankIn(g, i)].airline = g[i].airline
                          /\ top[RankIn(g, i)].modernity_index = Round3(g[i].modernity_index)

\* the raw rows of airline nm in country c, and the countries of nm with the
\* most rows
RawPair(nm, c) == {i \in DOMAIN raw : raw[i].airline_name = nm /\ raw[i].country = c}
RawCountries(nm) ==
    {raw[i].country : i \in {j \in DOMAIN raw : raw[j].airline_name = nm}} \ {NoText}
MostRows(nm) ==
    {c \in RawCountries(nm) :
        \A e \in RawCountries(nm) : Cardinality(RawPair(nm, e)) <= Cardinality(RawPair(nm, c))}
FirstRow(nm, c) == CHOOSE i \in RawPair(nm, c) : \A j \in RawPair(nm, c) : i <= j
\* of the countries with the most rows, the one met first in the dataset
FirstMostRows(nm) ==
    CHOOSE c \in MostRows(nm) : \A e \in MostRows(nm) : FirstRow(nm, c) <= FirstRow(nm, e)
RawNamesOfKey(key) ==
    {raw[i].airline_name : i \in {j \in DOMAIN raw :
        raw[j].airline_name # NoText /\ raw[j].country # NoText
        /\ airline_key(raw[j].airline_name) = key}}
\* the direct join gives an airline a country that has the most raw rows for
\* one of the dataset names of that airline
DirectJoinMostRows ==
    stage = "air14_manual" =>
        \A i \in DOMAIN merged :
            merged[i].country # NoText =>
                \E nm \in RawNamesOfKey(merged[i].airline_key) : merged[i].country \in MostRows(nm)
\* C14: after the direct join an airline has the country with the most raw rows
\* for its name, and of several countries with the same highest number of rows
\* the one met first in the raw data.
C14_FirstEncountered ==
    stage = "air14_manual" =>
        \A i \in DOMAIN merged :
            merged[i].country # NoText =>
                \E nm \in RawNamesOfKey(merged[i].airline_key) :
                    merged[i].country = FirstMostRows(nm)

\* C15: every token of the table the name heuristic matches against airline
\* names has at least 4 characters and is not a stop word, whatever the country
\* of the mapping it comes from.
C15_SignificantTokens ==
    stage = "air14_region" =>
        \A i \in DOMAIN TokenTable :
            Len(TokenTable[i][2]) >= 4 /\ TokenTable[i][2] \notin STOP_WORDS_FR

\* the rows of the token table tt whose token is in the cleaned name of an airline
TokenMatches(a, tt) ==
    LET name == normalize_str(a)
    IN  {i \in DOMAIN tt : tt[i][2] # <<>> /\ Contains(name, tt[i][2])}
\* the place of a country in the table mp, its first if it has several
MappingPlace(c, mp) ==
    CHOOSE j \in DOMAIN mp :
        mp[j].country = c /\ \A l \in 1..(j - 1) : mp[l].country # c
\* the table the three stages give for a dataset, a score table and a mapping
Resolution(rw, sc, mp) ==
    NameHeuristic(ManualOverride(MergeCountry(sc, airline_country(rw))),
                  build_country_token_table(WithExtraRows(mp)))
\* C16: once the three stages have run, the country of every airline and the
\* stage that gave it are those that the dataset, the score table, the manual
\* table and the mapping (in its order) determine; the rows of the token table
\* follow the order of the mapping, and a country guessed from the name is the
\* country of the first row of the token table whose token is in the name.
C16_Deterministic ==
    stage = "air14_region" =>
        LET tt == TokenTable
            mp == WithExtraRows(mapping)
            place == [i \in DOMAIN tt |-> MappingPlace(tt[i][1], mp)]
        IN  /\ merged = Resolution(raw, scores, mapping)
            /\ \A i, j \in DOMAIN tt : i < j => place[i] <= place[j]
            /\ \A i \in DOMAIN merged :
                  merged[i].country_guess # NoText =>
                      LET hits == TokenMatches(merged[i].airline, tt)
                      IN  /\ hits # {}
                          /\ \A k \in hits :
                                (\A l \in hits : k <= l) => merged[i].country_guess = tt[k][1]
\* the name of an airline holds tokens of two countries and the airline got
\* the country of the first
C16_Witness ==
    /\ stage = "air14_region"
    /\ \E i \in DOMAIN merged :
          /\ merged[i].country_guess # NoText
          /\ \E k \in TokenMatches(merged[i].airline, TokenTable) :
                TokenTable[k][1] # merged[i].country_guess

\* the mapping file is being rewritten by air13
Resync == stage \in {"air13", "air13_done"}
\* an entry that read_csv reads as it is written: kept by every re-sync for a
\* country that stays in the table
KeptUnlessNaValue ==
    [][Resync =>
        \A i \in DOMAIN mapping : \A j \in DOMAIN mapping' :
            Strip(ReadCell(mapping[i].country)) = mapping'[j].country =>
                /\ Strip(ReadCell(mapping[i].country_code)) # <<>> =>
                        mapping'[j].country_code = mapping[i].country_code
                /\ Strip(ReadCell(mapping[i].region)) # <<>> =>
                        mapping'[j].region = mapping[i].region
      ]_vars
\* C17: a re-sync overwrites no entry: a country of the table whose country_code
\* (resp. region) is not empty has the same country_code (resp. region) after
\* every re-sync that keeps the country.
C17_NeverOverwrites ==
    [][Resync =>
        \A i \in DOMAIN mapping : \A j \in DOMAIN mapping' :
            Strip(mapping[i].country) = mapping'[j].country =>
                /\ mapping[i].country_code # <<>> =>
                        mapping'[j].country_code = mapping[i].country_code
                /\ mapping[i].region # <<>> => mapping'[j].region = mapping[i].region
      ]_vars
\* C18: a re-sync deletes no row: every country of the table before the re-sync
\* is a country of the table after it, whether the dataset has it or not.
C18_NoDeletion ==
    [][Resync =>
        \A i \in DOMAIN mapping : \E j \in DOMAIN mapping' :
            mapping'[j].country = Strip(mapping[i].country)
      ]_vars
\* the rows of the table after a re-sync are the countries of the dataset
RowsAreDatasetCountries ==
    [][Resync => [k \in DOMAIN mapping' |-> mapping'[k].country] = countries(raw)]_vars
Secondary(r) ==
    {j \in DOMAIN agg.rows :
        NormName[agg.rows[j].airline] = NormName[r.airline] /\ IsNum(agg.rows[j].fleet_size)}
ScoresWritten == stage = "air9_done" /\ raw = <<>>
\* a features file without fleet_size column gets the fleet_size of AIR3
ColumnAbsentUsesAir3 ==
    ScoresWritten /\ "fleet_size" \notin feat.cols /\ agg.present =>
        \A i \in DOMAIN frame :
            LET r == feat.rows[frame[i].src]
            IN  /\ Secondary(r) # {} =>
                    \E j \in Secondary(r) : frame[i].fleet_size = agg.rows[j].fleet_size
                /\ frame[i].fleet_size = Zero => Secondary(r) = {}
\* C20: a features row whose fleet_size is missing (the column is absent or the
\* cell is empty) gets in the score table the fleet_size AIR3 holds for the same
\* normalized airline name, and has fleet_size 0 only when AIR3 holds none.
C20_SecondaryFleet ==
    ScoresWritten =>
        \A i \in DOMAIN frame :
            LET r == feat.rows[frame[i].src]
            IN  ("fleet_size" \notin feat.cols \/ IsNa(r.fleet_size)) =>
                    /\ (agg.present /\ Secondary(r) # {}) =>
                            \E j \in Secondary(r) : frame[i].fleet_size = agg.rows[j].fleet_size
                    /\ frame[i].fleet_size = Zero => ~(agg.present /\ Secondary(r) # {})

\* the family counts of a set of model cells
CountsOf(models) ==
    LET n(fam) == Num(QInt(Cardinality({m \in models : Tags[m][fam]})))
    IN  [n_a220 |-> n("is_a220"), n_787 |-> n("is_787"), n_a350 |-> n("is_a350"),
         n_a330neo |-> n("is_a330neo"), n_neo |-> n("is_neo"), n_max |-> n("is_max")]
\* the family counts of a row of the features table
CountsIn(r) ==
    [n_a220 |-> r.n_a220, n_787 |-> r.n_787, n_a350 |-> r.n_a350,
     n_a330neo |-> r.n_a330neo, n_neo |-> r.n_neo, n_max |-> r.n_max]
\* the raw rows whose name is name up to letter case, surrounding whitespace
\* and accents
Variants(name) == {k \in DOMAIN raw : Air1Name[raw[k].airline_name] = Air1Name[name]}

\* C21: once build_features.py has run on the aggregate of air1, the raw rows
\* whose airline names differ only by letter case, surrounding whitespace or
\* accents have one row in the features table, and its fleet_size, n_models and
\* family counts are those of all these raw rows together.
C21_VariantsGrouped ==
    (FeatBuilt /\ agg = AggOfAir1(air1)) =>
        \A j \in DOMAIN raw :
            LET group == Variants(raw[j].airline_name)
                models == {raw[k].model : k \in group} \ {NoText}
                rows == {i \in DOMAIN feat.rows :
                            feat.rows[i].airline = Air1Name[raw[j].airline_name]}
            IN  /\ Cardinality(rows) = 1
                /\ \A i \in rows :
                    /\ feat.rows[i].fleet_size = Num(QInt(Cardinality(group)))
                    /\ feat.rows[i].n_models = Num(QInt(Cardinality(models)))
                    /\ CountsIn(feat.rows[i]) = CountsOf(models)

\* the dataset is one row and build_features.py has written its features
OneModel == FeatBuilt /\ Len(raw) = 1 /\ Len(feat.rows) = 1

\* C22: for a dataset of one row whose model is "737 MAX 8", "7M8" or
\* "737-8-200", tag_family sets is_max and the row of the airline in the
\* features table has n_max = 1.
C22_MaxCodes ==
    (OneModel /\ raw[1].model \in Range(MAX_CODES)) =>
        /\ Tags[raw[1].model].is_max
        /\ feat.rows[1].n_max = One

\* the family of each marketing code, as its tag and as its count
FAMILY_OF == <<"is_neo", "is_max", "is_787", "is_a350", "is_a220", "is_a330neo">>
COUNT_OF == <<"n_neo", "n_max", "n_787", "n_a350", "n_a220", "n_a330neo">>

\* C23: for a dataset of one row whose model is one of the six marketing codes
\* in any letter case, tag_family sets the tag of the family of the code and no
\* other tag, and the row of the airline in the features table counts 1 for
\* that family and 0 for the five others.
C23_MarketingCodes ==
    OneModel =>
        \A k \in DOMAIN MARKETING_CODES :
            Lower(raw[1].model) = Lower(MARKETING_CODES[k]) =>
                /\ \A f \in DOMAIN Tags[raw[1].model] :
                        Tags[raw[1].model][f] <=> f = FAMILY_OF[k]
                /\ CountsIn(feat.rows[1]) =
                        [c \in Range(COUNT_OF) |-> IF c = COUNT_OF[k] THEN One ELSE Zero]
C23_Witness ==
    /\ OneModel
    /\ raw[1].model = Upper(MARKETING_CODES[6])
    /\ feat.rows[1].n_a330neo = One
    /\ feat.rows[1].n_neo = Zero

\* C24: for a dataset of one row whose model cell is empty or is a number and
\* not a text, tag_family returns every tag false, the features row of the
\* airline has every family count 0, and the new_gen flag of air1 is 0 (the
\* airline's new_gen_share is 0).
C24_NonStringModel ==
    (OneModel /\ ~IsStr(raw[1].model)) =>
        LET tags == tag_family(raw[1].model)
        IN  /\ \A f \in DOMAIN tags : ~tags[f]
            /\ CountsIn(feat.rows[1]) = CountsOf({})
            /\ air1[1].new_gen_share = Zero

\* the columns of the features table that the score formula and the fleet
\* threshold of air9_compute_scores.py read
SCORE_INPUTS == {"airline", "fleet_size", "pct_newgen_narrow", "pct_newgen_wide", "pct_a220"}

\* C25: when air9_compute_scores.py is run on a features file that is absent,
\* or that lacks one of the columns the score is computed from, it stops with
\* an error and has written no score table: it never goes on with the absent
\* column replaced by a default.
C25_FailFast ==
    (raw = <<>> /\ stage \in {"air9_done", "air9_failed"}) =>
        ((~feat.present \/ ~(SCORE_INPUTS \subseteq feat.cols)) =>
            (stage = "air9_failed" /\ scores = <<>>))

\* a data endpoint has answered a request whose database access failed
DataAccessFailed ==
    /\ stage = "api"
    /\ api.endpoint \in {"/airlines", "/clusters", "/regions/summary"}
    /\ (api.connect # "ok" \/ api.execute # "ok")

\* C26: a data endpoint whose connection to the database or whose query failed
\* answers 500 with the body {"error": "database error"}; /health answers 200
\* and opens no connection.
C26_DatabaseError ==
    /\ DataAccessFailed => (api.status = 500 /\ api.body = "database error")
    /\ (stage = "api" /\ api.endpoint = "/health") => (api.status = 200 /\ api.connections = 0)

\* the number of rows of the table t that are rows of the airline a
RowsOf(t, a) == Cardinality({i \in DOMAIN t : t[i].airline = a})
RegionJoined ==
    stage \in {"air14_manual", "air14_guess", "air14_region", "air14_filter",
               "air14_summary", "air14_failed", "air14_done"}

\* C27: from the first join of air14_region_summary.py on, the merged table
\* never has more rows of an airline than the score table has, and in the
\* summary no region lists an airline in top_airlines more often than the score
\* table has rows of it.
C27_NoRowMultiplication ==
    RegionJoined =>
        /\ \A i \in DOMAIN merged :
                RowsOf(merged, merged[i].airline) <= RowsOf(scores, merged[i].airline)
        /\ \A k \in DOMAIN summary :
                \A j \in DOMAIN summary[k].top_airlines :
                    RowsOf(summary[k].top_airlines, summary[k].top_airlines[j].airline)
                        <= RowsOf(scores, summary[k].top_airlines[j].airline)
\* the same, where no two raw names share a key: the mapping alone
C27_MappingJoin ==
    (\A i, j \in DOMAIN raw : airline_key(raw[i].airline_name) = airline_key(raw[j].airline_name)
                                => raw[i].airline_name = raw[j].airline_name)
        => C27_NoRowMultiplication

\* C28: when air9_compute_scores.py has written the score table, the table has
\* as many rows as the features table, and its i-th row is the row of the
\* airline of the i-th row of the features table.
C28_OneRowPerFeature ==
    stage = "air9_done" =>
        /\ Len(scores) = Len(feat.rows)
        /\ \A i \in DOMAIN scores : scores[i].airline = feat.rows[i].airline
\* the same for the runs where build_features.py wrote the features table
C28_AfterBuildFeatures == FeatBuilt => C28_OneRowPerFeature

\* the aggregate row of r has a raw row under its normalized name
HasRawRow(r) == \E j \in DOMAIN raw : NormName[raw[j].airline_name] = NormName[r.airline]

\* C29: in every row of the features table of build_features.py each of the six
\* family counts is a number that is at most n_models, and a row whose airline
\* has no raw row under its normalized name has n_models = 0 and the six counts
\* equal to 0.
C29_CountsWithinModels ==
    FeatBuilt =>
        \A i \in DOMAIN feat.rows :
            LET r == feat.rows[i]
                counts == CountsIn(r)
            IN  /\ \A c \in DOMAIN counts : IsNum(counts[c]) /\ CGe(r.n_models, counts[c])
                /\ ~HasRawRow(r) => (r.n_models = Zero /\ counts = CountsOf({}))
\* two models of the airline of the first row, one of them an A320neo, and a
\* second row of an airline that is in the aggregate only
C29_Witness ==
    /\ FeatBuilt
    /\ Len(feat.rows) = 2
    /\ feat.rows[1].n_models = Num(QInt(2)) /\ feat.rows[1].n_neo = One
    /\ ~HasRawRow(feat.rows[2])
    /\ feat.rows[2].n_models = Zero

\* what the proportion normalization is to return for the cell v
Normalized(v) ==
    IF ~IsNum(v) THEN Zero
    ELSE IF QLt(v, QZero) THEN Zero
    ELSE IF QLe(v, QOne) THEN v
    ELSE Num(QMin(QOne, QDiv(v, QInt(100))))
\* the columns of the features file that the scorer passes through to_prop as
\* they are
ReadThroughToProp ==
    (IF Direct THEN {"pct_newgen_narrow", "pct_newgen_wide"} ELSE {})
        \cup ({"pct_a220", "diversity"} \cap feat.cols)

\* C30: each cell the scorer passes through to_prop comes out unchanged when it
\* is a number of [0,1], as min(1, v/100) when it is a number v > 1, and as 0
\* when it is negative, empty or not a number; the result is in [0,1].
C30_ToProp ==
    \A i \in DOMAIN frame :
        \A c \in ReadThroughToProp :
            /\ frame[i][c] = Normalized(FeatOf(frame[i])[c])
            /\ Proportion(frame[i][c])
\* a row read from a percentage, a negative value and a text
C30_Witness ==
    \E i \in DOMAIN frame :
        /\ Direct /\ "pct_a220" \in feat.cols
        /\ FeatOf(frame[i]).pct_newgen_narrow = Num(QInt(30))
        /\ frame[i].pct_newgen_narrow = Num(Q(3, 10))
        /\ FeatOf(frame[i]).pct_newgen_wide = Num(Q(-1, 2))
        /\ frame[i].pct_newgen_wide = Zero
        /\ FeatOf(frame[i]).pct_a220 = NONNUM
        /\ frame[i].pct_a220 = Zero

====
